---------------------------- MODULE Spec2Model ----------------------------
(***************************************************************************)
(* A model of the .dz e-mail scraper (src/scraper/scripts/scraper.py).     *)
(*                                                                         *)
(* Strings are sequences of atoms.  An atom is a TLA+ string standing for  *)
(* one character ("a", ";", "/") or for a run of characters that none of   *)
(* the modelled string operations looks inside ("https", "univ-x").        *)
(* Splitting, searching, prefix/suffix tests and case folding work on      *)
(* atoms exactly as the Python operations work on characters.              *)
(***************************************************************************)
EXTENDS Integers, Sequences, FiniteSets, TLC

VARIABLES
    call,           \* the pure-function call in progress (input, results, pc)
    OUTPUT_RAW,     \* data/emails_raw.csv: [exists, rows]
    OUTPUT_CLEAN,   \* data/emails_clean.csv: [exists, rows]
    seeds,          \* run: the lines of seeds.txt
    seed_index,     \* run: position of "for seed in seeds"
    pc,             \* where run / scrape_domain stands
    normalized_seed,        \* scrape_domain
    visited_urls,           \* self.visited_urls, kept for the whole run
    queue,                  \* scrape_domain
    seen_in_queue,          \* scrape_domain
    pages_scraped,          \* scrape_domain
    consecutive_failures,   \* scrape_domain
    batch_urls,             \* scrape_domain: the batch in flight
    futures,                \* per URL of the batch: "submitted", "fetching", "done"
    batch_emails,           \* scrape_domain
    batch_new_links,        \* scrape_domain
    all_emails,             \* scrape_domain
    fetching        \* the URL whose fetch_html call the last step started

files == <<OUTPUT_RAW, OUTPUT_CLEAN>>
crawl == <<seeds, seed_index, pc, normalized_seed, visited_urls, queue, seen_in_queue,
           pages_scraped, consecutive_failures, batch_urls, futures, batch_emails,
           batch_new_links, all_emails, fetching>>
vars == <<call, files, crawl>>

None == "None"
NoFile == [exists |-> FALSE, rows |-> <<>>]
NoCall == [op |-> "none"]

\* the parts of the state a specification does not use stay as constructed
FilesAbsent == OUTPUT_RAW = NoFile /\ OUTPUT_CLEAN = NoFile
NoUrl == <<>>
CrawlIdle ==
    /\ seeds = <<>> /\ seed_index = 1 /\ pc = "idle" /\ normalized_seed = NoUrl
    /\ visited_urls = {} /\ queue = <<>> /\ seen_in_queue = {}
    /\ pages_scraped = 0 /\ consecutive_failures = 0
    /\ batch_urls = <<>> /\ futures = <<>> /\ batch_emails = <<>>
    /\ batch_new_links = <<>> /\ all_emails = <<>> /\ fetching = NoUrl

-----------------------------------------------------------------------------
(* Python str operations, on sequences of atoms                            *)

Min(a, b) == IF a <= b THEN a ELSE b
Max(a, b) == IF a >= b THEN a ELSE b

\* a local variable: F applied to the value of v, v being computed once
Let(v, F(_)) == CHOOSE r \in {F(x) : x \in {v}} : TRUE

\* s[i:] and s[:i] with Python's 0-based index i (clamped like a slice)
From(s, i) == SubSeq(s, Min(i, Len(s)) + 1, Len(s))
Upto(s, i) == SubSeq(s, 1, Min(i, Len(s)))

\* s.startswith(p), s.endswith(p)
StartsWith(s, p) == Len(p) <= Len(s) /\ SubSeq(s, 1, Len(p)) = p
EndsWith(s, p) == Len(p) <= Len(s) /\ SubSeq(s, Len(s) - Len(p) + 1, Len(s)) = p

\* p in s  (contiguous substring)
Contains(s, p) ==
    \E i \in 0..(Len(s) - Len(p)) : SubSeq(s, i + 1, i + Len(p)) = p

\* s.find(a, start) for a one-atom a: 0-based index, -1 when absent
Find(s, a, start) ==
    IF \E i \in (start + 1)..Len(s) : s[i] = a
    THEN (CHOOSE i \in (start + 1)..Len(s) :
             s[i] = a /\ \A j \in (start + 1)..(i - 1) : s[j] # a) - 1
    ELSE -1

\* s.rfind(a) for a one-atom a
RFind(s, a) ==
    IF \E i \in 1..Len(s) : s[i] = a
    THEN (CHOOSE i \in 1..Len(s) :
             s[i] = a /\ \A j \in (i + 1)..Len(s) : s[j] # a) - 1
    ELSE -1

\* s.rstrip(a) for a one-atom a
RECURSIVE RStrip(_, _)
RStrip(s, a) ==
    IF Len(s) > 0 /\ s[Len(s)] = a THEN RStrip(SubSeq(s, 1, Len(s) - 1), a) ELSE s

\* s.split(a): the list of parts between the occurrences of atom a
RECURSIVE Split(_, _)
Split(s, a) ==
    LET i == Find(s, a, 0)
    IN  IF i < 0 THEN <<s>> ELSE <<Upto(s, i)>> \o Split(From(s, i + 1), a)

\* a.join(parts)
RECURSIVE Join(_, _)
Join(parts, a) ==
    IF Len(parts) = 0 THEN <<>>
    ELSE IF Len(parts) = 1 THEN parts[1]
    ELSE parts[1] \o <<a>> \o Join(Tail(parts), a)

\* the upper-case atoms of the model and their lower-case forms
UpperAtoms == {"V", "R", "K", "S", "UNIV-X", "HTTPS"}
LowerAtom(a) ==
    CASE a = "V" -> "v"
      [] a = "R" -> "r"
      [] a = "K" -> "k"
      [] a = "S" -> "s"
      [] a = "UNIV-X" -> "univ-x"
      [] a = "HTTPS" -> "https"
      [] OTHER -> a

\* s.lower()
Lower(s) == [i \in 1..Len(s) |-> LowerAtom(s[i])]

\* atoms that contain a cased character (letters)
Uncased == {".", "-", "@", "/", ":", ";", "?", "#", "=", "&", "_", "+", "%", " ",
            "0", "1", "2", "3", "4", "5", "6", "7", "8", "9", "80", "8080"}

\* s.isupper(): at least one cased character and no lower-case one
IsUpper(s) ==
    /\ \E i \in 1..Len(s) : s[i] \notin Uncased
    /\ \A i \in 1..Len(s) : s[i] \in Uncased \/ s[i] \in UpperAtoms

\* all sequences over S of length at most n
RECURSIVE SeqsUpTo(_, _)
SeqsUpTo(S, n) ==
    IF n = 0 THEN {<<>>}
    ELSE LET shorter == SeqsUpTo(S, n - 1)
         IN  shorter \cup {Append(s, a) : s \in {t \in shorter : Len(t) = n - 1}, a \in S}

-----------------------------------------------------------------------------
(* urllib.parse.urlparse, as used by the scraper                            *)

\* atoms made of scheme characters only (letters, digits, "+", "-", ".")
SchemeAtoms == {"https", "http", "HTTPS", "mailto", "h", "a", "b", "x", "p", "q",
                ".", "-", "+", "dz", "www", "univ-x", "univ-y", "staff"}
\* atoms whose first character is an ASCII letter
AlphaAtoms == SchemeAtoms \ {".", "-", "+"}

\* schemes for which urlparse splits the path parameters off (uses_params)
UsesParams == {<<>>, <<"http">>, <<"https">>}

\* urlsplit's index of the end of the netloc: the first of "/", "?", "#"
NetlocEnd(url, start) ==
    LET cand == {i \in start..(Len(url) - 1) : url[i + 1] \in {"/", "?", "#"}}
    IN  IF cand = {} THEN Len(url)
        ELSE CHOOSE i \in cand : \A j \in cand : i <= j

\* urllib.parse._splitparams
SplitParams(url) ==
    LET i == IF Find(url, "/", 0) >= 0
             THEN Find(url, ";", RFind(url, "/"))
             ELSE Find(url, ";", 0)
    IN  IF Find(url, "/", 0) >= 0 /\ i < 0
        THEN [path |-> url, params |-> <<>>]
        ELSE [path |-> Upto(url, i), params |-> From(url, i + 1)]

\* urlsplit: the scheme before the first ":" and what follows it
SplitScheme(url) ==
    LET c == Find(url, ":", 0)
        hasScheme == /\ c > 0
                     /\ url[1] \in AlphaAtoms
                     /\ \A k \in 1..c : url[k] \in SchemeAtoms
    IN  IF hasScheme THEN [scheme |-> Lower(Upto(url, c)), rest |-> From(url, c + 1)]
        ELSE [scheme |-> <<>>, rest |-> url]

\* urlsplit: the netloc after "//" and what follows it
SplitNetloc(url) ==
    IF StartsWith(url, <<"/", "/">>)
    THEN [netloc |-> SubSeq(url, 3, NetlocEnd(url, 2)), rest |-> From(url, NetlocEnd(url, 2))]
    ELSE [netloc |-> <<>>, rest |-> url]

\* url.split(a, 1): what is before the first atom a and what is after it
SplitOnce(url, a) ==
    LET i == Find(url, a, 0)
    IN  IF i >= 0 THEN [head |-> Upto(url, i), tail |-> From(url, i + 1)]
        ELSE [head |-> url, tail |-> <<>>]

urlparse(url) ==
    Let(SplitScheme(url), LAMBDA s :
    Let(SplitNetloc(s.rest), LAMBDA n :
    Let(SplitOnce(n.rest, "#"), LAMBDA f :
    Let(SplitOnce(f.head, "?"), LAMBDA q :
    Let(IF s.scheme \in UsesParams /\ Find(q.head, ";", 0) >= 0
        THEN SplitParams(q.head)
        ELSE [path |-> q.head, params |-> <<>>], LAMBDA sp :
        [scheme |-> s.scheme, netloc |-> n.netloc, path |-> sp.path,
         params |-> sp.params, query |-> q.tail, fragment |-> f.tail])))))

\* urlsplit raises ValueError("Invalid IPv6 URL") when the netloc has one of
\* "[" and "]" without the other
UrlparseRaises(url) ==
    Let(SplitNetloc(SplitScheme(url).rest).netloc, LAMBDA netloc :
        (Find(netloc, "[", 0) >= 0) # (Find(netloc, "]", 0) >= 0))

-----------------------------------------------------------------------------
(* EmailScraper.normalize_url                                              *)

normalize_url(url) ==
    IF UrlparseRaises(url) THEN url ELSE
    Let(urlparse(url), LAMBDA parsed :
        LET scheme == IF parsed.scheme = <<>> THEN <<"https">> ELSE parsed.scheme
            stripped == RStrip(parsed.path, "/")
            path == IF stripped = <<>> THEN <<"/">> ELSE stripped
        IN  IF parsed.netloc = <<>> THEN url
            ELSE scheme \o <<":", "/", "/">> \o parsed.netloc \o path
                 \o (IF parsed.query # <<>> THEN <<"?">> \o parsed.query ELSE <<>>)
                 \o (IF parsed.fragment # <<>> THEN <<"#">> \o parsed.fragment ELSE <<>>))

\* bound: number of atoms after the host in the URLs given to normalize_url
MaxTail == 3

UrlPrefixes == {<<"https", ":", "/", "/", "h">>, <<"/", "/", "h">>, <<"h">>, <<>>,
                <<"https", ":", "/", "/", "UNIV-X", ".", "dz">>,
                <<"https", ":", "/", "/", "univ-x", ".", "dz">>}
UrlTailAtoms == {"/", "a", ";", "?", "#"}
NormalizeInputs == {p \o t : p \in UrlPrefixes, t \in SeqsUpTo(UrlTailAtoms, MaxTail)}

NormalizeInit ==
    /\ FilesAbsent /\ CrawlIdle
    /\ call \in {[op |-> "normalize_url", url |-> u, once |-> None, twice |-> None, pc |-> 0] :
                u \in NormalizeInputs}

\* first application: normalize_url(u)
NormalizeOnce ==
    /\ call.op = "normalize_url" /\ call.pc = 0
    /\ call' = [call EXCEPT !.once = normalize_url(call.url), !.pc = 1]
    /\ UNCHANGED <<files, crawl>>

\* second application: normalize_url(normalize_url(u))
NormalizeTwice ==
    /\ call.op = "normalize_url" /\ call.pc = 1
    /\ call' = [call EXCEPT !.twice = normalize_url(call.once), !.pc = 2]
    /\ UNCHANGED <<files, crawl>>

NormalizeNext == NormalizeOnce \/ NormalizeTwice

SpecNormalize == NormalizeInit /\ [][NormalizeNext]_vars

\* C2: normalize_url is idempotent: normalize_url(normalize_url(u)) = normalize_url(u)
\* for every URL string u.
C2_NormalizeIdempotent ==
    (call.op = "normalize_url" /\ call.pc = 2) => call.twice = call.once

-----------------------------------------------------------------------------
(* EmailScraper.is_same_base_domain                                        *)

\* the nested get_base_domain: the last two labels of a netloc ending in "dz"
get_base_domain(netloc) ==
    LET parts == Split(netloc, ".")
    IN  IF netloc = <<>> THEN <<>>
        ELSE IF Len(parts) >= 2 /\ parts[Len(parts)] = <<"dz">>
             THEN Join(SubSeq(parts, Len(parts) - 1, Len(parts)), ".")
             ELSE netloc

HttpSchemes == {<<"http">>, <<"https">>, <<>>}

is_same_base_domain(url1, url2) ==
    Let(urlparse(url1), LAMBDA parsed1 :
    Let(urlparse(url2), LAMBDA parsed2 :
        LET base1 == get_base_domain(parsed1.netloc)
            base2 == get_base_domain(parsed2.netloc)
            schemes_match == \/ parsed1.scheme = parsed2.scheme
                             \/ (parsed1.scheme \in HttpSchemes /\ parsed2.scheme \in HttpSchemes)
        IN  IF base1 = <<>> \/ base2 = <<>> THEN FALSE
            ELSE base1 = base2 /\ schemes_match))

\* the URLs given to is_same_base_domain: scheme://[sub.]name.tld[:port][/path]
DomSchemes == {<<"http">>, <<"https">>}
DomSubs == {<<>>, <<"www", ".">>, <<"staff", ".">>}
DomNames == {<<"univ-x">>, <<"univ-y">>}
DomTlds == {<<".", "dz">>, <<".", "com">>}
DomPorts == {<<>>, <<":", "8080">>}
DomPaths == {<<>>, <<"/", "p">>, <<"/", "q">>}
DomainInputs ==
    {s \o <<":", "/", "/">> \o sub \o n \o t \o port \o path :
        s \in DomSchemes, sub \in DomSubs, n \in DomNames, t \in DomTlds,
        port \in DomPorts, path \in DomPaths}

DomainInit ==
    /\ FilesAbsent /\ CrawlIdle
    /\ call \in {[op |-> "is_same_base_domain", url1 |-> u1, url2 |-> u2, result |-> None, pc |-> 0] :
                u1 \in DomainInputs, u2 \in DomainInputs}

SameBaseDomainCall ==
    /\ call.op = "is_same_base_domain" /\ call.pc = 0
    /\ call' = [call EXCEPT !.result = is_same_base_domain(call.url1, call.url2), !.pc = 1]
    /\ UNCHANGED <<files, crawl>>

DomainNext == SameBaseDomainCall

SpecDomain == DomainInit /\ [][DomainNext]_vars

\* the host of a URL: its netloc without the port
HostOf(url) ==
    Let(urlparse(url).netloc, LAMBDA netloc :
        LET c == Find(netloc, ":", 0)
        IN  IF c >= 0 THEN Upto(netloc, c) ELSE netloc)
HostLabels(url) == Split(HostOf(url), ".")
LastTwo(labels) == SubSeq(labels, Max(1, Len(labels) - 1), Len(labels))
EndsInDz(url) == Let(HostLabels(url), LAMBDA l : l[Len(l)] = <<"dz">>)

\* C3: for two http(s) URLs whose hosts end in the label "dz", is_same_base_domain
\* is true exactly when the last two host labels are equal.
C3_SameDomainUnitIffLastTwoLabels ==
    (/\ call.op = "is_same_base_domain" /\ call.pc = 1
     /\ EndsInDz(call.url1) /\ EndsInDz(call.url2))
    => (call.result = (LastTwo(HostLabels(call.url1)) = LastTwo(HostLabels(call.url2))))

-----------------------------------------------------------------------------
(* config.EXCLUDED_EMAIL_PATTERNS and EmailScraper.is_institutional_email  *)

EXCLUDED_EMAIL_PATTERNS == <<
    <<"n", "o", "r", "e", "p", "l", "y">>, <<"n", "o", "-", "r", "e", "p", "l", "y">>,
    <<"d", "o", "n", "o", "t", "r", "e", "p", "l", "y">>,
    <<"c", "o", "n", "t", "a", "c", "t">>, <<"i", "n", "f", "o">>,
    <<"s", "u", "p", "p", "o", "r", "t">>, <<"h", "e", "l", "p">>,
    <<"w", "e", "b", "m", "a", "s", "t", "e", "r">>, <<"a", "d", "m", "i", "n">>,
    <<"a", "d", "m", "i", "n", "i", "s", "t", "r", "a", "t", "o", "r">>,
    <<"p", "o", "s", "t", "m", "a", "s", "t", "e", "r">>, <<"a", "b", "u", "s", "e">>,
    <<"s", "e", "c", "u", "r", "i", "t", "y">>, <<"s", "e", "r", "v", "i", "c", "e">>,
    <<"s", "e", "r", "v", "i", "c", "e", "s">>,
    <<"a", "s", "s", "i", "s", "t", "a", "n", "c", "e">>,
    <<"s", "e", "c", "r", "e", "t", "a", "r", "i", "a", "t">>,
    <<"s", "e", "c", "r", "e", "t", "a", "r", "y">>,
    <<"s", "e", "c", "r", "e", "t", "a", "i", "r", "e">>,
    <<"d", "i", "r", "e", "c", "t", "i", "o", "n">>,
    <<"d", "i", "r", "e", "c", "t", "e", "u", "r">>,
    <<"d", "i", "r", "e", "c", "t", "o", "r">>, <<"r", "e", "c", "t", "o", "r", "a", "t">>,
    <<"r", "e", "c", "t", "o", "r">>, <<"r", "e", "c", "t", "e", "u", "r">>,
    <<"c", "o", "m", "m", "u", "n", "i", "c", "a", "t", "i", "o", "n">>, <<"c", "o", "m">>,
    <<"m", "a", "r", "k", "e", "t", "i", "n", "g">>, <<"p", "r", "e", "s", "s", "e">>,
    <<"m", "e", "d", "i", "a">>, <<"r", "e", "l", "a", "t", "i", "o", "n", "s">>,
    <<"a", "c", "c", "u", "e", "i", "l">>, <<"r", "e", "c", "e", "p", "t", "i", "o", "n">>,
    <<"w", "e", "l", "c", "o", "m", "e">>,
    <<"i", "n", "s", "c", "r", "i", "p", "t", "i", "o", "n">>,
    <<"a", "d", "m", "i", "s", "s", "i", "o", "n">>,
    <<"r", "e", "g", "i", "s", "t", "r", "a", "t", "i", "o", "n">>,
    <<"b", "i", "b", "l", "i", "o">>,
    <<"b", "i", "b", "l", "i", "o", "t", "h", "e", "q", "u", "e">>,
    <<"l", "i", "b", "r", "a", "r", "y">>, <<"t", "e", "c", "h", "n", "i", "q", "u", "e">>,
    <<"t", "e", "c", "h", "n", "i", "c", "a", "l">>, <<"t", "e", "c", "h">>,
    <<"s", "y", "s", "t", "e", "m">>, <<"s", "y", "s", "t", "e", "m", "s">>,
    <<"s", "y", "s", "a", "d", "m", "i", "n">>, <<"t", "e", "s", "t">>,
    <<"t", "e", "s", "t", "i", "n", "g">>, <<"d", "e", "m", "o">>, <<"m", "a", "i", "l">>,
    <<"e", "m", "a", "i", "l">>, <<"c", "o", "u", "r", "r", "i", "e", "r">>,
    <<"g", "e", "n", "e", "r", "i", "c">>, <<"d", "e", "f", "a", "u", "l", "t">>,
    <<"e", "x", "a", "m", "p", "l", "e">>, <<"e", "l", "e", "a", "r", "n", "i", "n", "g">>,
    <<"e", "-", "l", "e", "a", "r", "n", "i", "n", "g">>, <<"e", "l", "e", "a", "r", "n">>,
    <<"a", "u", "t", "h", "e", "n", "t", "i", "f", "i", "c", "a", "t", "i", "o", "n">>,
    <<"a", "u", "t", "h">>,
    <<"a", "u", "t", "h", "e", "n", "t", "i", "c", "a", "t", "i", "o", "n">>,
    <<"v", "r", "p">>, <<"v", "r", "e", "x">>, <<"v", "r", "-", "r", "e", "l", "e", "x">>,
    <<"v", "r", "-">>, <<"c", "e", "i">>, <<"c", "e", "i", "l">>, <<"l", "s", "p">>,
    <<"l", "a", "a">>, <<"x", "x", "x", ".", "x", "x", "x">>
>>

\* admin_prefixes of is_institutional_email
admin_prefixes == <<
    <<"v", "r", ".">>, <<"d", "o", "y", "e", "n", ".">>, <<"c", "h", "e", "f", ".">>,
    <<"d", "i", "r", "e", "c", "t", "e", "u", "r", ".">>,
    <<"d", "i", "r", "e", "c", "t", "o", "r", ".">>, <<"a", "d", "m", "i", "n", ".">>,
    <<"s", "e", "r", "v", "i", "c", "e", ".">>
>>

\* the mutant compares the local part as written, without .lower()
is_institutional_email_no_lower(email) ==
    LET local_part == Split(email, "@")[1]
    IN  IF Find(email, "@", 0) < 0 THEN FALSE
        ELSE \/ \E i \in 1..Len(EXCLUDED_EMAIL_PATTERNS) :
                    Contains(local_part, Lower(EXCLUDED_EMAIL_PATTERNS[i]))
             \/ Len(local_part) < 3
             \/ \E i \in 1..Len(admin_prefixes) : StartsWith(local_part, admin_prefixes[i])
             \/ (/\ Len(local_part) <= 4
                 /\ Find(local_part, ".", 0) < 0 /\ Find(local_part, "-", 0) < 0
                 /\ (IsUpper(local_part) \/ Len(local_part) <= 3))

\* TRUE = institutional, the identifier is rejected
is_institutional_email(email) ==
    LET local_part == Lower(Split(email, "@")[1])
    IN  IF Find(email, "@", 0) < 0 THEN FALSE
        ELSE \/ \E i \in 1..Len(EXCLUDED_EMAIL_PATTERNS) :
                    Contains(local_part, Lower(EXCLUDED_EMAIL_PATTERNS[i]))
             \/ Len(local_part) < 3
             \/ \E i \in 1..Len(admin_prefixes) : StartsWith(local_part, admin_prefixes[i])
             \/ (/\ Len(local_part) <= 4
                 /\ Find(local_part, ".", 0) < 0 /\ Find(local_part, "-", 0) < 0
                 /\ (IsUpper(local_part) \/ Len(local_part) <= 3))

\* bound: length of the enumerated local parts
MaxLocal == 4

LocalAtoms == {"v", "r", "R", ".", "-", "c", "o", "m"}
LiteralLocals == {
    <<"a", ".", "y", "a", "h", "i", "a", "o", "u", "i">>,
    <<"i", "n", "f", "o">>, <<"n", "o", "r", "e", "p", "l", "y">>,
    <<"a", "b">>, <<"V", "R">>, <<"v", "r", ".", "d", "o", "y", "e", "n">>,
    <<"k", ".", "s", "a", "i", "d">>, <<"K", ".", "S", "a", "i", "d">>,
    <<"c", "o", "n", "t", "a", "c", "t">>}
MailDomain == <<"univ-x", ".", "dz">>
ClassifierInputs ==
    {l \o <<"@">> \o MailDomain : l \in LiteralLocals \cup SeqsUpTo(LocalAtoms, MaxLocal)}

ClassifierInit ==
    /\ FilesAbsent /\ CrawlIdle
    /\ call \in {[op |-> "is_institutional_email", email |-> e, result |-> None, pc |-> 0] :
                e \in ClassifierInputs}

ClassifyCall ==
    /\ call.op = "is_institutional_email" /\ call.pc = 0
    /\ call' = [call EXCEPT !.result = is_institutional_email(call.email), !.pc = 1]
    /\ UNCHANGED <<files, crawl>>

ClassifierNext == ClassifyCall

SpecClassifier == ClassifierInit /\ [][ClassifierNext]_vars

\* the local part of an identifier: what precedes its first "@"
LocalPart(email) == Upto(email, Find(email, "@", 0))
Classified(l) ==
    /\ call.op = "is_institutional_email" /\ call.pc = 1
    /\ LocalPart(call.email) = l
InDenylist(l) ==
    \E i \in 1..Len(EXCLUDED_EMAIL_PATTERNS) : Contains(Lower(l), Lower(EXCLUDED_EMAIL_PATTERNS[i]))
HasRolePrefix(l) == \E i \in 1..Len(admin_prefixes) : StartsWith(l, admin_prefixes[i])

\* C4: the classifier accepts local part a.yahiaoui and rejects info, noreply, ab, VR
\* and vr.doyen; it rejects every identifier whose local part contains a denylist
\* entry case-insensitively, is shorter than 3 characters, or starts with a role
\* prefix followed by ".".
C4_ClassifierCases ==
    (call.op = "is_institutional_email" /\ call.pc = 1) =>
        LET l == LocalPart(call.email)
        IN  /\ l = <<"a", ".", "y", "a", "h", "i", "a", "o", "u", "i">> => call.result = FALSE
            /\ l \in {<<"i", "n", "f", "o">>, <<"n", "o", "r", "e", "p", "l", "y">>,
                       <<"a", "b">>, <<"V", "R">>,
                       <<"v", "r", ".", "d", "o", "y", "e", "n">>} => call.result = TRUE
            /\ (InDenylist(l) \/ Len(l) < 3 \/ HasRolePrefix(l)) => call.result = TRUE

\* a mixed-case local part that hits the denylist only after case folding was rejected
C4_Witness ==
    /\ Classified(<<"v", "R", "-">>)
    /\ call.result = TRUE

-----------------------------------------------------------------------------
(* EmailScraper.extract_emails_from_text / extract_emails_from_html        *)
(*                                                                         *)
(* A page is the sequence, in document order, of its identifier-bearing    *)
(* items: [channel, value].  For the channels scanned with email_pattern   *)
(* (meta, text, script) the value is one regex match; for the attribute    *)
(* channels (mailto, data) it is the raw attribute value.                  *)

\* the values of the page's items of one channel, in document order
RECURSIVE ChannelValues(_, _)
ChannelValues(page, ch) ==
    IF page = <<>> THEN <<>>
    ELSE (IF page[1].channel = ch THEN <<page[1].value>> ELSE <<>>)
         \o ChannelValues(Tail(page), ch)

\* str.replace(a, "") for a one-atom a
RECURSIVE Remove(_, _)
Remove(s, a) ==
    IF s = <<>> THEN <<>>
    ELSE (IF s[1] = a THEN <<>> ELSE <<s[1]>>) \o Remove(Tail(s), a)

\* str.strip()
RECURSIVE Strip(_)
Strip(s) ==
    IF s # <<>> /\ s[1] = " " THEN Strip(Tail(s))
    ELSE IF s # <<>> /\ s[Len(s)] = " " THEN Strip(SubSeq(s, 1, Len(s) - 1))
    ELSE s

\* the dict appended for an accepted identifier; email.split('@', 1)
EmailRecord(email, url, method, now) ==
    LET at == Find(email, "@", 0)
    IN  [email |-> email, local_part |-> Upto(email, at), domain |-> From(email, at + 1),
         source_url |-> url, found_at |-> now, parse_method |-> method]

\* the mutant appends every match, without asking the classifier
RECURSIVE extract_emails_from_text_unfiltered(_, _, _)
extract_emails_from_text_unfiltered(matches, source_url, now) ==
    IF matches = <<>> THEN <<>>
    ELSE <<EmailRecord(Lower(matches[1]), source_url, "regex_html", now)>>
         \o extract_emails_from_text_unfiltered(Tail(matches), source_url, now)

\* matches: the email_pattern matches of the text, in order
RECURSIVE extract_emails_from_text(_, _, _)
extract_emails_from_text(matches, source_url, now) ==
    IF matches = <<>> THEN <<>>
    ELSE LET email == Lower(matches[1])
         IN  (IF is_institutional_email(email) THEN <<>>
              ELSE <<EmailRecord(email, source_url, "regex_html", now)>>)
             \o extract_emails_from_text(Tail(matches), source_url, now)

\* channel 1: <a href="mailto:...">
RECURSIVE MailtoLinks(_, _, _)
MailtoLinks(hrefs, url, now) ==
    IF hrefs = <<>> THEN <<>>
    ELSE LET href == hrefs[1]
             email == Strip(Split(Remove(href, "mailto:"), "?")[1])
             email_lower == Lower(email)
         IN  (IF /\ StartsWith(href, <<"mailto:">>)
                 /\ Find(email, "@", 0) >= 0 /\ EndsWith(email, <<".", "dz">>)
                 /\ ~is_institutional_email(email_lower)
              THEN <<EmailRecord(email_lower, url, "mailto_link", now)>>
              ELSE <<>>)
             \o MailtoLinks(Tail(hrefs), url, now)

\* channel 2: data-email attributes
RECURSIVE DataAttributes(_, _, _)
DataAttributes(values, url, now) ==
    IF values = <<>> THEN <<>>
    ELSE LET email == Strip(values[1])
             email_lower == Lower(email)
         IN  (IF /\ Find(email, "@", 0) >= 0 /\ EndsWith(email, <<".", "dz">>)
                 /\ ~is_institutional_email(email_lower)
              THEN <<EmailRecord(email_lower, url, "data_attribute", now)>>
              ELSE <<>>)
             \o DataAttributes(Tail(values), url, now)

\* channels 3 and 5: email_pattern matches in meta content and in scripts
RECURSIVE PatternMatches(_, _, _, _)
PatternMatches(matches, url, method, now) ==
    IF matches = <<>> THEN <<>>
    ELSE LET email == Lower(matches[1])
         IN  (IF ~is_institutional_email(email)
              THEN <<EmailRecord(email, url, method, now)>>
              ELSE <<>>)
             \o PatternMatches(Tail(matches), url, method, now)

\* the variant keeps the last record of each identifier
RECURSIVE UniqueEmailsLast(_, _)
UniqueEmailsLast(emails, seen_emails) ==
    IF emails = <<>> THEN <<>>
    ELSE IF \E i \in 2..Len(emails) : emails[i].email = emails[1].email
         THEN UniqueEmailsLast(Tail(emails), seen_emails)
         ELSE <<emails[1]>> \o UniqueEmailsLast(Tail(emails), seen_emails)

\* "Deduplicate emails found from same page": the first record of each identifier
RECURSIVE UniqueEmails(_, _)
UniqueEmails(emails, seen_emails) ==
    IF emails = <<>> THEN <<>>
    ELSE IF emails[1].email \in seen_emails
         THEN UniqueEmails(Tail(emails), seen_emails)
         ELSE <<emails[1]>>
              \o UniqueEmails(Tail(emails), seen_emails \cup {emails[1].email})

extract_emails_from_html(page, url, now) ==
    UniqueEmails(
        MailtoLinks(ChannelValues(page, "mailto"), url, now)
        \o DataAttributes(ChannelValues(page, "data"), url, now)
        \o PatternMatches(ChannelValues(page, "meta"), url, "meta_tag", now)
        \o extract_emails_from_text(ChannelValues(page, "text"), url, now)
        \o PatternMatches(ChannelValues(page, "script"), url, "script_tag", now),
        {})

\* bound: number of identifier-bearing items on a page
MaxItems == 2

Mail(l) == l \o <<"@">> \o MailDomain
KSaid == Mail(<<"k", ".", "s", "a", "i", "d">>)
KSaidUpper == Mail(<<"K", ".", "S", "a", "i", "d">>)
Contact == Mail(<<"c", "o", "n", "t", "a", "c", "t">>)
IdPool == {KSaid, KSaidUpper, Contact}
Channels == {"mailto", "data", "meta", "text", "script"}
PageItems ==
    {[channel |-> "mailto", value |-> <<"mailto:">> \o e] : e \in IdPool}
    \cup {[channel |-> "mailto", value |-> <<"mailto:">> \o KSaid \o <<"?", "subject">>]}
    \cup {[channel |-> c, value |-> e] : c \in Channels \ {"mailto"}, e \in IdPool}
PageUrl == <<"https", ":", "/", "/", "univ-x", ".", "dz", "/", "staff">>

ExtractInit ==
    /\ FilesAbsent /\ CrawlIdle
    /\ call \in {[op |-> "extract_emails_from_html", html |-> pg, result |-> None, pc |-> 0] :
                pg \in SeqsUpTo(PageItems, MaxItems)}

ExtractCall ==
    /\ call.op = "extract_emails_from_html" /\ call.pc = 0
    /\ call' = [call EXCEPT !.result = extract_emails_from_html(call.html, PageUrl, 0),
                            !.pc = 1]
    /\ UNCHANGED <<files, crawl>>

ExtractNext == ExtractCall

SpecExtract == ExtractInit /\ [][ExtractNext]_vars

\* the page of the example: a mailto link for k.said and contact@ in the body text
ExamplePages ==
    {<<[channel |-> "mailto", value |-> <<"mailto:">> \o KSaid],
       [channel |-> "text", value |-> Contact]>>,
     <<[channel |-> "text", value |-> Contact]>>
       \o <<[channel |-> "mailto", value |-> <<"mailto:">> \o KSaid]>>}

\* C5: extract_emails_from_html returns only identifiers the classifier accepts; the
\* page with mailto:k.said@univ-x.dz and the body text contact@univ-x.dz yields exactly
\* one record, for k.said@univ-x.dz.
C5_ExtractionSelectivity ==
    (call.op = "extract_emails_from_html" /\ call.pc = 1) =>
        /\ \A i \in 1..Len(call.result) : ~is_institutional_email(call.result[i].email)
        /\ call.html \in ExamplePages =>
               (Len(call.result) = 1 /\ call.result[1].email = KSaid)

\* the example page was extracted and gave its one record
C5_Witness ==
    /\ call.op = "extract_emails_from_html" /\ call.pc = 1
    /\ call.html \in ExamplePages
    /\ Len(call.result) = 1

-----------------------------------------------------------------------------
(* EmailScraper.save_raw_emails / clean_and_dedupe_emails                  *)

Range(f) == {f[i] : i \in DOMAIN f}

\* the mutant opens the raw store with mode 'w'
save_raw_emails_truncating(raw, emails, written) ==
    IF emails = <<>> \/ ~written THEN raw
    ELSE [exists |-> TRUE, rows |-> emails]

\* open(OUTPUT_RAW, 'a') and writerow for each record; nothing when emails is empty,
\* the file as it was when the write fails (IOError/OSError is caught)
save_raw_emails(raw, emails, written) ==
    IF emails = <<>> \/ ~written THEN raw
    ELSE [exists |-> TRUE, rows |-> raw.rows \o emails]

\* index of the emails_dict entry with key email, 0 when absent
DictIndex(dict, email) ==
    IF \E i \in 1..Len(dict) : dict[i].email = email
    THEN CHOOSE i \in 1..Len(dict) : dict[i].email = email
    ELSE 0

\* the mutant skips the re-validation of the row by the classifier
MergeRowNoRevalidate(dict, row) ==
    LET email == Strip(Lower(row.email))
        i == DictIndex(dict, email)
    IN  IF row.email = <<>> \/ email = <<>> \/ Find(email, "@", 0) < 0 THEN dict
        ELSE IF i = 0
        THEN Append(dict,
                 [email |-> email,
                  domain |-> Lower(IF row.domain # <<>> THEN row.domain
                                   ELSE Split(email, "@")[2]),
                  first_seen |-> row.found_at, sources |-> row.source_url,
                  verified |-> "false", status |-> "unknown"])
        ELSE dict

\* one iteration of "for row in reader": emails_dict after the row
MergeRow(dict, row) ==
    LET email == Strip(Lower(row.email))
        i == DictIndex(dict, email)
        new_source == row.source_url
        existing_sources == Split(dict[i].sources, ";")
        sources == IF new_source # <<>> /\ new_source \notin Range(existing_sources)
                   THEN dict[i].sources \o <<";">> \o new_source
                   ELSE dict[i].sources
        first_seen == IF row.found_at < dict[i].first_seen
                      THEN row.found_at ELSE dict[i].first_seen
    IN  IF row.email = <<>> \/ email = <<>> \/ Find(email, "@", 0) < 0 THEN dict
        ELSE IF is_institutional_email(email) THEN dict
        ELSE IF i = 0
        THEN Append(dict,
                 [email |-> email,
                  domain |-> Lower(IF row.domain # <<>> THEN row.domain
                                   ELSE Split(email, "@")[2]),
                  first_seen |-> row.found_at, sources |-> row.source_url,
                  verified |-> "false", status |-> "unknown"])
        ELSE [dict EXCEPT ![i].sources = sources, ![i].first_seen = first_seen]

\* the loop over the raw rows, from an empty emails_dict
RECURSIVE MergeRows(_, _)
MergeRows(rows, dict) ==
    IF rows = <<>> THEN dict
    ELSE MergeRows(Tail(rows), MergeRow(dict, rows[1]))

\* the mutant opens the canonical table in append mode
OpenCleanForAppend(old_rows) == old_rows

\* open(OUTPUT_CLEAN, 'w'): the previous content is discarded
OpenCleanForWrite(old_rows) == <<>>

\* the canonical table after clean_and_dedupe_emails; untouched when there is no raw file
clean_and_dedupe_emails(raw, clean) ==
    IF ~raw.exists THEN clean
    ELSE [exists |-> TRUE,
          rows |-> OpenCleanForWrite(clean.rows) \o MergeRows(raw.rows, <<>>)]

\* bounds: rows in the raw store, and rebuilds of one raw store
MaxRaw == 2
MaxRebuilds == 2

SrcA == <<"https", ":", "/", "/", "univ-x", ".", "dz", "/", "a">>
SrcB == <<"https", ":", "/", "/", "univ-x", ".", "dz", "/", "b">>
\* a page URL whose query holds a ";"
SrcSemi == <<"https", ":", "/", "/", "univ-x", ".", "dz", "/", "p", "?", "a", ";", "b">>
Times == {1, 2}
\* the rows a raw store may hold: also mixed-case and institutional identifiers
RawRows ==
    {EmailRecord(e, src, "regex_html", t) : e \in IdPool, src \in {SrcA, SrcB, SrcSemi},
                                            t \in Times}
\* a canonical table left by an earlier run under a laxer policy
StaleClean ==
    [exists |-> TRUE,
     rows |-> <<[email |-> Contact, domain |-> MailDomain, first_seen |-> 1,
                 sources |-> SrcA, verified |-> "false", status |-> "unknown"]>>]

StoreInit ==
    /\ call = [op |-> "clean_and_dedupe_emails", rebuilds |-> 0]
    /\ OUTPUT_RAW \in {NoFile} \cup
                       {[exists |-> TRUE, rows |-> rs] : rs \in SeqsUpTo(RawRows, MaxRaw)}
    /\ OUTPUT_CLEAN \in {NoFile, StaleClean}
    /\ CrawlIdle

\* one call of clean_and_dedupe_emails on the raw store as it is
StoreRebuild ==
    /\ call.op = "clean_and_dedupe_emails" /\ call.rebuilds < MaxRebuilds
    /\ OUTPUT_CLEAN' = clean_and_dedupe_emails(OUTPUT_RAW, OUTPUT_CLEAN)
    /\ call' = [call EXCEPT !.rebuilds = @ + 1]
    /\ UNCHANGED <<OUTPUT_RAW, crawl>>

StoreNext == StoreRebuild

SpecStore == StoreInit /\ [][StoreNext]_vars

-----------------------------------------------------------------------------
(* clean_emails.py: is_institutional_email and clean_csv                   *)

\* the variant also rejects the local parts of three characters
clean_emails_is_institutional_email_strict(email) ==
    LET local_part == Lower(Split(email, "@")[1])
    IN  IF Find(email, "@", 0) < 0 THEN FALSE
        ELSE \/ \E i \in 1..Len(EXCLUDED_EMAIL_PATTERNS) :
                    Contains(local_part, EXCLUDED_EMAIL_PATTERNS[i])
             \/ Len(local_part) < 5

\* clean_emails.is_institutional_email: the patterns are compared as written
clean_emails_is_institutional_email(email) ==
    LET local_part == Lower(Split(email, "@")[1])
    IN  IF Find(email, "@", 0) < 0 THEN FALSE
        ELSE \/ \E i \in 1..Len(EXCLUDED_EMAIL_PATTERNS) :
                    Contains(local_part, EXCLUDED_EMAIL_PATTERNS[i])
             \/ Len(local_part) < 3

\* bound: length of the enumerated strings without "@"
MaxBare == 2
\* the strings given to the two classifiers: identifiers, and strings without "@"
CleanerInputs ==
    ClassifierInputs \cup LiteralLocals \cup SeqsUpTo(LocalAtoms, MaxBare)

CompareInit ==
    /\ FilesAbsent /\ CrawlIdle
    /\ call \in {[op |-> "is_institutional_email", email |-> e, scraper |-> None,
                  cleaner |-> None, pc |-> 0] : e \in CleanerInputs}

\* EmailScraper.is_institutional_email(email)
ScraperClassifies ==
    /\ call.op = "is_institutional_email" /\ call.pc = 0
    /\ call' = [call EXCEPT !.scraper = is_institutional_email(call.email), !.pc = 1]
    /\ UNCHANGED <<files, crawl>>

\* clean_emails.is_institutional_email(email)
CleanerClassifies ==
    /\ call.op = "is_institutional_email" /\ call.pc = 1
    /\ call' = [call EXCEPT !.cleaner = clean_emails_is_institutional_email(call.email),
                            !.pc = 2]
    /\ UNCHANGED <<files, crawl>>

\* clean_emails.clean_csv on the canonical table: a row is kept when its email,
\* lower-cased and stripped, is not empty, holds an "@" and is not classified
\* institutional; the rows kept are written back as they were read
clean_csv(clean) ==
    IF ~clean.exists THEN clean
    ELSE [exists |-> TRUE,
          rows |-> SelectSeq(clean.rows, LAMBDA row :
                       Let(Strip(Lower(row.email)), LAMBDA email :
                           /\ email # <<>>
                           /\ Find(email, "@", 0) >= 0
                           /\ ~clean_emails_is_institutional_email(email)))]

\* a run's rebuild of the canonical table followed by the standalone cleaner
TableInit ==
    /\ call = [op |-> "clean_csv", rebuilt |-> NoFile, pc |-> 0]
    /\ OUTPUT_RAW \in {NoFile} \cup
                       {[exists |-> TRUE, rows |-> rs] : rs \in SeqsUpTo(RawRows, MaxRaw)}
    /\ OUTPUT_CLEAN \in {NoFile, StaleClean}
    /\ CrawlIdle

\* EmailScraper.clean_and_dedupe_emails()
TableRebuild ==
    /\ call.op = "clean_csv" /\ call.pc = 0
    /\ OUTPUT_CLEAN' = clean_and_dedupe_emails(OUTPUT_RAW, OUTPUT_CLEAN)
    /\ call' = [call EXCEPT !.rebuilt = OUTPUT_CLEAN', !.pc = 1]
    /\ UNCHANGED <<OUTPUT_RAW, crawl>>

\* python clean_emails.py
CleanCsv ==
    /\ call.op = "clean_csv" /\ call.pc = 1
    /\ OUTPUT_CLEAN' = clean_csv(OUTPUT_CLEAN)
    /\ call' = [call EXCEPT !.pc = 2]
    /\ UNCHANGED <<OUTPUT_RAW, crawl>>

CleanerInit == CompareInit \/ TableInit

CleanerNext == ScraperClassifies \/ CleanerClassifies \/ TableRebuild \/ CleanCsv

SpecCleaner == CleanerInit /\ [][CleanerNext]_vars

\* the canonical table has been rebuilt from the raw store
Rebuilt == call.op = "clean_and_dedupe_emails" /\ call.rebuilds >= 1 /\ OUTPUT_RAW.exists

\* the key of a raw row, and the keys that survive the classifier
Folded(row) == Strip(Lower(row.email))
Group(e) == {i \in 1..Len(OUTPUT_RAW.rows) : Folded(OUTPUT_RAW.rows[i]) = e}
AcceptedKeys ==
    {Folded(OUTPUT_RAW.rows[i]) : i \in 1..Len(OUTPUT_RAW.rows)}
    \ {e \in {Folded(OUTPUT_RAW.rows[i]) : i \in 1..Len(OUTPUT_RAW.rows)} :
          is_institutional_email(e)}
CleanRowsOf(e) == {i \in 1..Len(OUTPUT_CLEAN.rows) : OUTPUT_CLEAN.rows[i].email = e}
Earliest(e) ==
    CHOOSE t \in {OUTPUT_RAW.rows[i].found_at : i \in Group(e)} :
        \A i \in Group(e) : t <= OUTPUT_RAW.rows[i].found_at
SourcesOf(e) == {OUTPUT_RAW.rows[i].source_url : i \in Group(e)}
\* the ";"-joined listings of a set of source URLs, each URL once
Listings(D) ==
    {Join(p, ";") : p \in {q \in [1..Cardinality(D) -> D] :
                              \A i, j \in 1..Cardinality(D) : q[i] = q[j] => i = j}}

\* C6: the rebuild merges the raw rows with the same case-folded identifier into one
\* canonical row whose first_seen is the earliest found_at of the group and whose
\* sources field lists every distinct source_url of the group exactly once.
C6_DedupMerge ==
    Rebuilt =>
        \A e \in AcceptedKeys :
            /\ Cardinality(CleanRowsOf(e)) = 1
            /\ \A i \in CleanRowsOf(e) :
                  /\ OUTPUT_CLEAN.rows[i].domain = MailDomain
                  /\ OUTPUT_CLEAN.rows[i].first_seen = Earliest(e)
                  /\ OUTPUT_CLEAN.rows[i].sources \in Listings(SourcesOf(e))

\* C9: the canonical rebuild is idempotent: once the table has been rebuilt, a further
\* rebuild on the unchanged raw store leaves it as it is.
C9_RebuildIdempotent ==
    [][(call.op = "clean_and_dedupe_emails" /\ call.rebuilds >= 1
        /\ OUTPUT_RAW' = OUTPUT_RAW)
       => OUTPUT_CLEAN' = OUTPUT_CLEAN]_vars

\* a non-empty canonical table was rebuilt a second time over a stale table
C9_Witness ==
    /\ call.op = "clean_and_dedupe_emails" /\ call.rebuilds >= 2
    /\ OUTPUT_RAW.exists /\ Len(OUTPUT_CLEAN.rows) >= 1

\* C10: after every canonical rebuild the canonical table holds each identifier at
\* most once, every identifier in it is lower-case, and none is rejected by the
\* classifier, whatever rows the raw store holds.
C10_CanonicalInvariant ==
    Rebuilt =>
        /\ \A i, j \in 1..Len(OUTPUT_CLEAN.rows) :
              OUTPUT_CLEAN.rows[i].email = OUTPUT_CLEAN.rows[j].email => i = j
        /\ \A i \in 1..Len(OUTPUT_CLEAN.rows) :
              /\ Lower(OUTPUT_CLEAN.rows[i].email) = OUTPUT_CLEAN.rows[i].email
              /\ ~is_institutional_email(OUTPUT_CLEAN.rows[i].email)

\* a raw store holding a mixed-case and an institutional identifier was rebuilt
C10_Witness ==
    /\ Rebuilt
    /\ \E i \in 1..Len(OUTPUT_RAW.rows) : OUTPUT_RAW.rows[i].email = KSaidUpper
    /\ \E i \in 1..Len(OUTPUT_RAW.rows) : OUTPUT_RAW.rows[i].email = Contact
    /\ Len(OUTPUT_CLEAN.rows) = 1

-----------------------------------------------------------------------------
(* Keyword tests of the link classifiers                                   *)
(*                                                                         *)
(* The keywords are words; in the URLs and anchor texts of the model two   *)
(* word atoms are always separated by a punctuation atom, so "kw in s"     *)
(* holds exactly when kw occurs inside one atom of s.                      *)

\* the keywords that occur inside an atom (as substrings of its characters)
KeywordsIn(a) ==
    CASE a = "staff" -> {"staff"}
      [] a = "fmath" -> {"fmath", "math"}
      [] a = "page" -> {"page"}
      [] a = "contact" -> {"contact"}
      [] a = "login" -> {"login"}
      [] a = "admin" -> {"admin"}
      [] a = "websites" -> {"websites"}
      [] a = "faculte" -> {"faculte"}
      [] OTHER -> {}

\* kw in s
KwIn(s, kw) == \E i \in 1..Len(s) : kw \in KeywordsIn(s[i])
\* any(kw in s for kw in kws)
AnyKwIn(s, kws) == \E i \in 1..Len(s) : KeywordsIn(s[i]) \cap kws # {}

\* find_links_on_page: priority_keywords, faculty_keywords, teacher_keywords
priority_keywords == {
    "staff", "websites", "contact", "personnel", "enseignants", "professeurs", "equipe",
    "team", "annuaire", "directory", "faculte", "faculty", "departement", "department",
    "corps", "enseignant", "professeur", "chercheur", "researcher"
}
faculty_keywords == {
    "faculte", "faculty", "facultes", "faculties", "departement", "department",
    "departements", "departments", "filiere", "specialite", "speciality", "formation",
    "domaine", "domain", "section", "option", "mathematiques", "mathematics", "math",
    "fmath", "informatique", "computer", "info", "cs", "physique", "physics", "phys",
    "chimie", "chemistry", "chim", "biologie", "biology", "bio", "electronique",
    "electronics", "elec", "mecanique", "mechanical", "meca", "genie", "engineering",
    "civil", "archi", "economie", "economics", "eco", "droit", "law", "juridique",
    "lettres", "literature", "langues", "philosophie", "philosophy", "philo",
    "sociologie", "sociology", "socio", "psychologie", "psychology", "psy", "medecine",
    "medicine", "med", "pharmacie", "pharmacy", "pharma", "sciences", "sci",
    "islamiques", "islamic", "fsi"
}
teacher_keywords == priority_keywords \cup {"enseignant", "enseignants", "professeur", "professeurs", "teacher", "teachers", "faculty", "staff", "personnel", "annuaire", "directory", "contact", "equipe", "team"}

\* scrape_domain: its own, shorter, faculty_keywords and priority_keywords
sd_faculty_keywords == {
    "faculte", "faculty", "facultes", "faculties", "departement", "department",
    "departements", "departments", "filiere", "specialite", "formation", "domaine",
    "section", "option", "mathematiques", "informatique", "physique", "chimie",
    "biologie", "electronique", "mecanique", "genie", "economie", "droit", "lettres",
    "philosophie", "sociologie", "psychologie", "medecine", "pharmacie", "sciences",
    "islamiques", "fsi"
}
sd_priority_keywords == {
    "staff", "websites", "contact", "personnel", "enseignants", "professeurs",
    "annuaire", "directory"
}

\* the path keywords that exclude a teacher-name link
not_name_keywords == {"websites", "contact", "page", "admin", "login"}

\* the login/admin fragments that are skipped
skip_fragments == {<<"/", "user", "?">>, <<"/", "login">>, <<"/", "admin">>,
                   <<"admin_panel">>, <<"?", "login", "=">>, <<"&", "login", "=">>}
IsSkipped(s_lower) == \E f \in skip_fragments : Contains(s_lower, f)

Digits == {"0", "1", "2", "3", "4", "5", "6", "7", "8", "9"}
\* str.isdigit()
IsDigit(s) == s # <<>> /\ \A i \in 1..Len(s) : s[i] \in Digits
next_texts == {<<"next">>, <<"suivant">>, <<">>">>, <<"last">>, <<"dernier">>,
               <<"precedent">>, <<"previous">>, <<"<<">>}

\* [p for p in path.split('/') if p]
PathParts(path) == SelectSeq(Split(path, "/"), LAMBDA part : part # <<>>)

\* the name-shaped last path segment (is_teacher_name_link / is_teacher_name)
IsTeacherName(url_lower, path) ==
    LET parts == PathParts(path)
    IN  /\ Len(parts) >= 1
        /\ Find(parts[Len(parts)], "-", 0) >= 0
        /\ ~AnyKwIn(url_lower, not_name_keywords)
        /\ Len(Split(parts[Len(parts)], "-")) >= 2

\* the page/p query parameter patterns of is_pagination
HasPageParam(url_lower) ==
    \/ Contains(url_lower, <<"page", "=">>)
    \/ Contains(url_lower, <<"p", "=">>)

\* urllib.parse.urljoin for the hrefs of the model: absolute URLs and
\* root-relative paths
urljoin(base, href) ==
    Let(urlparse(base), LAMBDA b :
    Let(urlparse(href), LAMBDA h :
        IF h.scheme # <<>> \/ h.netloc # <<>> THEN href
        ELSE IF href # <<>> /\ href[1] = "/"
        THEN b.scheme \o <<":", "/", "/">> \o b.netloc \o href
        ELSE base))

\* _strip_www
strip_www(netloc) == IF StartsWith(netloc, <<"www", ".">>) THEN From(netloc, 2) ELSE netloc

-----------------------------------------------------------------------------
(* EmailScraper.find_links_on_page                                         *)
(*                                                                         *)
(* html: [anchors |-> sequence of [href, text], text_urls |-> the bare     *)
(* URLs matched in the page text, items |-> identifier-bearing items].     *)

EmptyLists ==
    [contact |-> <<>>, priority |-> <<>>, teacher |-> <<>>, faculty |-> <<>>,
     subdomain |-> <<>>, regular |-> <<>>, seen |-> {}]

\* contact + priority + teacher + faculty + subdomain + regular
InPriorityOrder(l) ==
    l.contact \o l.priority \o l.teacher \o l.faculty \o l.subdomain \o l.regular

\* the list an anchor of the page at base_url is put in ("none": the link is dropped)
LinkTier(link, base_url) ==
    Let(urljoin(base_url, link.href), LAMBDA full_url :
    Let(normalize_url(full_url), LAMBDA normalized_url :
    Let(urlparse(normalized_url), LAMBDA link_parsed :
    Let(is_same_base_domain(base_url, normalized_url), LAMBDA same_base_domain :
        LET link_text == Lower(link.text)
            url_lower == Lower(normalized_url)
            is_subdomain == /\ link_parsed.netloc # urlparse(base_url).netloc
                            /\ same_base_domain
            is_contact_link == \/ KwIn(link_text, "contact")
                               \/ KwIn(url_lower, "contact")
                               \/ EndsWith(link_parsed.path, <<"/", "contact">>)
            is_teacher_name_link == IsTeacherName(url_lower, link_parsed.path)
            is_priority == AnyKwIn(link_text, teacher_keywords)
                           \/ AnyKwIn(url_lower, teacher_keywords)
            is_faculty_link == AnyKwIn(link_text, faculty_keywords)
                               \/ AnyKwIn(url_lower, faculty_keywords)
            is_pagination == \/ HasPageParam(url_lower)
                             \/ IsDigit(link_text)
                             \/ link_text \in next_texts
        IN  IF urlparse(full_url).scheme \notin HttpSchemes THEN "none"
            ELSE IF IsSkipped(Lower(link.href)) THEN "none"
            ELSE IF ~same_base_domain THEN "none"
            ELSE IF is_contact_link THEN "contact"
            ELSE IF is_pagination THEN "pagination"
            ELSE IF is_teacher_name_link THEN "teacher"
            ELSE IF is_faculty_link THEN "faculty"
            ELSE IF is_subdomain THEN "subdomain"
            ELSE IF is_priority THEN "priority"
            ELSE "regular"))))

\* the normalised target of an anchor of the page at base_url
Target(base_url, link) == normalize_url(urljoin(base_url, link.href))

\* the lists l with url put in the list of its tier
PutInTier(l, tier, url) ==
    IF tier = "none" THEN l
    ELSE IF tier = "contact" THEN [l EXCEPT !.contact = Append(@, url)]
    ELSE IF tier = "pagination" THEN [l EXCEPT !.priority = <<url>> \o @]
    ELSE IF tier = "teacher" THEN [l EXCEPT !.teacher = Append(@, url)]
    ELSE IF tier = "faculty" THEN [l EXCEPT !.faculty = Append(@, url)]
    ELSE IF tier = "subdomain" THEN [l EXCEPT !.subdomain = Append(@, url)]
    ELSE IF tier = "priority" THEN [l EXCEPT !.priority = Append(@, url)]
    ELSE [l EXCEPT !.regular = Append(@, url)]

\* one iteration of "for link in soup.find_all('a', href=True)"
AnchorStep(l, link, base_url) ==
    Let(Target(base_url, link), LAMBDA normalized_url :
    Let(LinkTier(link, base_url), LAMBDA tier :
        IF urlparse(urljoin(base_url, link.href)).scheme \notin HttpSchemes THEN l
        ELSE IF IsSkipped(Lower(link.href)) THEN l
        ELSE IF normalized_url \in l.seen THEN l
        ELSE PutInTier([l EXCEPT !.seen = @ \cup {normalized_url}], tier, normalized_url)))

\* one iteration of "for text_url in text_urls"
TextUrlStep(l, text_url, base_url) ==
    Let(normalize_url(text_url), LAMBDA normalized_text_url :
    Let(is_same_base_domain(base_url, normalized_text_url), LAMBDA same_base_domain :
        LET is_subdomain == /\ urlparse(normalized_text_url).netloc # urlparse(base_url).netloc
                            /\ same_base_domain
            is_priority == AnyKwIn(Lower(normalized_text_url), priority_keywords)
        IN  IF normalized_text_url \in l.seen \/ ~same_base_domain THEN l
            ELSE PutInTier([l EXCEPT !.seen = @ \cup {normalized_text_url}],
                           IF is_subdomain THEN "subdomain"
                           ELSE IF is_priority THEN "priority" ELSE "regular",
                           normalized_text_url)))

\* "for link in soup.find_all('a', href=True)": the steps in the order of the list,
\* first those of its first half, then those of the rest
RECURSIVE AnchorLoop(_, _, _)
AnchorLoop(l, anchors, base_url) ==
    IF anchors = <<>> THEN l
    ELSE IF Len(anchors) = 1 THEN AnchorStep(l, anchors[1], base_url)
    ELSE Let(AnchorLoop(l, Upto(anchors, Len(anchors) \div 2), base_url), LAMBDA l1 :
             AnchorLoop(l1, From(anchors, Len(anchors) \div 2), base_url))

RECURSIVE TextUrlLoop(_, _, _)
TextUrlLoop(l, text_urls, base_url) ==
    IF text_urls = <<>> THEN l
    ELSE Let(TextUrlStep(l, text_urls[1], base_url), LAMBDA l1 :
             TextUrlLoop(l1, Tail(text_urls), base_url))

\* the six lists of find_links_on_page after both loops
FoundLists(html, base_url) ==
    TextUrlLoop(AnchorLoop(EmptyLists, html.anchors, base_url), html.text_urls, base_url)

find_links_on_page(html, base_url) == InPriorityOrder(FoundLists(html, base_url))

-----------------------------------------------------------------------------
(* EmailScraper.discover_subdomain_pages / _discover_subdomains_from_html  *)

\* common_dept_subdomains, shortened to its first entry
common_dept_subdomains == <<"fmath">>

\* list(set(...)) gives some order of the elements
Orders(S) == {q \in [1..Cardinality(S) -> S] :
                \A i, j \in 1..Cardinality(S) : q[i] = q[j] => i = j}

discover_subdomain_pages(base_url) ==
    Let(urlparse(base_url), LAMBDA parsed :
        LET scheme == IF parsed.scheme = <<>> THEN <<"https">> ELSE parsed.scheme
            candidate(i) == normalize_url(scheme \o <<":", "/", "/">>
                                          \o <<common_dept_subdomains[i], ".">>
                                          \o strip_www(parsed.netloc))
        IN  IF parsed.netloc = <<>> THEN {}
            ELSE {url \in {candidate(i) : i \in 1..Len(common_dept_subdomains)} :
                     is_same_base_domain(base_url, url)})

RECURSIVE discover_subdomains_from_html(_, _, _)
discover_subdomains_from_html(anchors, base_url, discovered) ==
    IF anchors = <<>> THEN discovered
    ELSE Let(urljoin(base_url, anchors[1].href), LAMBDA full_url :
         Let(normalize_url(full_url), LAMBDA normalized :
             LET link_netloc == urlparse(full_url).netloc
                 link_no_www == strip_www(link_netloc)
                 base_no_www == strip_www(urlparse(base_url).netloc)
                 add == /\ link_netloc # <<>>
                        /\ link_no_www # base_no_www
                        /\ EndsWith(link_no_www, <<".">> \o base_no_www)
                        /\ is_same_base_domain(base_url, normalized)
                        /\ normalized \notin Range(discovered)
             IN  discover_subdomains_from_html(Tail(anchors), base_url,
                     IF add THEN Append(discovered, normalized) ELSE discovered)))

-----------------------------------------------------------------------------
(* EmailScraper.scrape_domain: classification of the links of a batch      *)

\* the tier scrape_domain gives a normalised link, from its URL alone
QueueTier(normalized_link, seed) ==
    Let(urlparse(normalized_link), LAMBDA link_parsed :
        LET url_lower == Lower(normalized_link)
            is_subdomain == /\ link_parsed.netloc # urlparse(seed).netloc
                            /\ is_same_base_domain(seed, normalized_link)
            is_priority == AnyKwIn(url_lower, sd_priority_keywords)
            is_contact == KwIn(url_lower, "contact")
                          \/ EndsWith(link_parsed.path, <<"/", "contact">>)
            is_teacher_name == IsTeacherName(url_lower, link_parsed.path)
            is_pagination == HasPageParam(url_lower)
            is_faculty == AnyKwIn(url_lower, sd_faculty_keywords)
        IN  IF is_contact THEN "contact"
            ELSE IF is_pagination THEN "pagination"
            ELSE IF is_teacher_name THEN "teacher"
            ELSE IF is_faculty THEN "faculty"
            ELSE IF is_subdomain THEN "subdomain"
            ELSE IF is_priority THEN "priority"
            ELSE "regular")

\* one iteration of "for link in batch_new_links"; l.seen is seen_in_queue
\* the step without the test on seen_in_queue
EnqueueStepUnseen(l, link, seed, visited) ==
    Let(normalize_url(link), LAMBDA normalized_link :
        IF normalized_link \in visited THEN l
        ELSE Let(QueueTier(normalized_link, seed), LAMBDA tier :
                 PutInTier([l EXCEPT !.seen = @ \cup {normalized_link}], tier,
                           normalized_link)))

EnqueueStep(l, link, seed, visited) ==
    Let(normalize_url(link), LAMBDA normalized_link :
        IF normalized_link \in l.seen \/ normalized_link \in visited THEN l
        ELSE Let(QueueTier(normalized_link, seed), LAMBDA tier :
                 PutInTier([l EXCEPT !.seen = @ \cup {normalized_link}], tier,
                           normalized_link)))

\* "for link in batch_new_links": the steps in the order of the list, first those
\* of its first half, then those of the rest
RECURSIVE EnqueueLoop(_, _, _, _)
EnqueueLoop(l, links, seed, visited) ==
    IF links = <<>> THEN l
    ELSE IF Len(links) = 1 THEN EnqueueStep(l, links[1], seed, visited)
    ELSE Let(EnqueueLoop(l, Upto(links, Len(links) \div 2), seed, visited), LAMBDA l1 :
             EnqueueLoop(l1, From(links, Len(links) \div 2), seed, visited))

\* the slice [:500] of the links appended to the queue
enqueue_limit == 500

\* what scrape_domain appends to the queue for the links of a batch
EnqueuedLinks(seen, links, seed, visited) ==
    Upto(InPriorityOrder(EnqueueLoop([EmptyLists EXCEPT !.seen = seen], links, seed,
                                     visited)),
         enqueue_limit)

-----------------------------------------------------------------------------
(* The links of one page, from find_links_on_page to the queue             *)

\* bound: number of anchors of the page
MaxAnchors == 3

LinksBase == <<"https", ":", "/", "/", "univ-x", ".", "dz", "/">>
\* anchors of every tier: the contact page, a ?page= link, two numbered listing
\* links, a name-shaped link, a faculty link, a subdomain, a keyword link, a plain one
AnchorPool ==
    {[href |-> <<"/", "contact">>, text |-> <<"x">>],
     [href |-> <<"/", "list", "?", "page", "=", "4">>, text |-> <<"x">>],
     [href |-> <<"/", "list", "/", "2">>, text |-> <<"2">>],
     [href |-> <<"/", "list", "/", "3">>, text |-> <<"3">>],
     [href |-> <<"/", "yahiaoui", "-", "kais">>, text |-> <<"x">>],
     [href |-> <<"/", "faculte">>, text |-> <<"x">>],
     [href |-> <<"https", ":", "/", "/", "staff", ".", "univ-x", ".", "dz", "/">>,
      text |-> <<"x">>],
     [href |-> <<"/", "staff">>, text |-> <<"x">>],
     [href |-> <<"/", "news">>, text |-> <<"x">>],
     [href |-> <<"/", "login">>, text |-> <<"x">>]}
\* the bare URLs the text of the page may hold: none, or the login page
LoginUrl == <<"https", ":", "/", "/", "univ-x", ".", "dz", "/", "login">>
TextUrlPool == {<<>>, <<LoginUrl>>}
\* a long directory page: one link more than the slice lets through, /t/1, /t/2, ...
LongListing ==
    [i \in 1..(enqueue_limit + 1) |-> [href |-> <<"/", "t", "/", ToString(i)>>,
                                       text |-> <<"x">>]]

LinksInit ==
    /\ FilesAbsent /\ CrawlIdle
    /\ call \in {[op |-> "find_links_on_page", anchors |-> a, text_urls |-> t,
                  found |-> None, queued |-> None, seen_in_queue |-> {LinksBase},
                  pc |-> 0] :
                a \in SeqsUpTo(AnchorPool, MaxAnchors) \cup {LongListing},
                t \in TextUrlPool}

\* _process_url: new_links = self.find_links_on_page(html, url)
FindLinksCall ==
    /\ call.op = "find_links_on_page" /\ call.pc = 0
    /\ call' = [call EXCEPT
                  !.found = find_links_on_page([anchors |-> call.anchors,
                                                text_urls |-> call.text_urls,
                                                items |-> <<>>],
                                               LinksBase),
                  !.pc = 1]
    /\ UNCHANGED <<files, crawl>>

\* scrape_domain: the links of the batch, this page alone, are classified and queued
EnqueueLinksCall ==
    /\ call.op = "find_links_on_page" /\ call.pc = 1
    /\ call' = [call EXCEPT
                  !.queued = EnqueuedLinks(call.seen_in_queue, call.found, LinksBase,
                                           {LinksBase}),
                  !.seen_in_queue = EnqueueLoop([EmptyLists EXCEPT !.seen = @], call.found,
                                                LinksBase, {LinksBase}).seen,
                  !.pc = 2]
    /\ UNCHANGED <<files, crawl>>

LinksNext == FindLinksCall \/ EnqueueLinksCall

SpecLinks == LinksInit /\ [][LinksNext]_vars

-----------------------------------------------------------------------------
(* EmailScraper.fetch_html                                                 *)
(*                                                                         *)
(* One step is one pass of the inner loop: session.get(url_to_try) with    *)
(* whatever the network gives, and the branch of the try statement that    *)
(* takes it.  requests lists the calls of session.get made so far.         *)

\* SCRAPER_RETRIES, the default of the parameter retries
RETRY_ATTEMPTS == 3

UrlQueryFragment(parsed) ==
    (IF parsed.query # <<>> THEN <<"?">> \o parsed.query ELSE <<>>)
    \o (IF parsed.fragment # <<>> THEN <<"#">> \o parsed.fragment ELSE <<>>)

ensure_https(u) ==
    IF UrlparseRaises(u) THEN u ELSE
    Let(urlparse(u), LAMBDA parsed :
        IF parsed.netloc = <<>> THEN u
        ELSE IF parsed.scheme = <<>> \/ parsed.scheme = <<"http">>
        THEN <<"https", ":", "/", "/">> \o parsed.netloc
             \o (IF parsed.path # <<>> THEN parsed.path
                 ELSE IF parsed.query # <<>> THEN <<"/">> ELSE <<>>)
             \o UrlQueryFragment(parsed)
        ELSE u)

try_www_variants(u) ==
    IF UrlparseRaises(u) THEN <<u>> ELSE
    Let(urlparse(u), LAMBDA parsed :
        LET scheme == IF parsed.scheme = <<>> THEN <<"https">> ELSE parsed.scheme
            new_netloc == IF StartsWith(parsed.netloc, <<"www", ".">>)
                          THEN From(parsed.netloc, 2)
                          ELSE <<"www", ".">> \o parsed.netloc
        IN  IF parsed.netloc = <<>> THEN <<u>>
            ELSE <<u, scheme \o <<":", "/", "/">> \o new_netloc
                      \o (IF parsed.path # <<>> THEN parsed.path ELSE <<"/">>)
                      \o UrlQueryFragment(parsed)>>)

\* what session.get and raise_for_status give: a response; HTTPError with status
\* 404 or 403; HTTPError with another status; a ConnectionError that is a name
\* resolution failure; another ConnectionError (ConnectTimeout and SSLError are
\* ConnectionErrors, so they are caught here); a Timeout that is not one (a read
\* timeout); any other RequestException
FetchOutcomes == {"response", "http_404", "http_403", "http_5xx", "dns", "connection",
                  "timeout", "request_exception"}

\* a variant that treats a 5xx status and a RequestException like a 404
HandlerNoRetry(outcome, attempt, is_last, current_retries) ==
    IF outcome = "response" THEN "return response"
    ELSE IF outcome \in {"http_404", "http_403", "dns", "http_5xx", "request_exception"}
    THEN IF is_last THEN "return None" ELSE "break"
    ELSE IF attempt = 0 /\ ~is_last THEN "break"
    ELSE IF is_last THEN "return None"
    ELSE "continue"

\* the try statement of the inner loop: how one pass ends (is_last stands for
\* url_to_try == url_variants[-1])
Handler(outcome, attempt, is_last, current_retries) ==
    IF outcome = "response" THEN "return response"
    ELSE IF outcome \in {"http_404", "http_403"}
    THEN IF is_last THEN "return None" ELSE "break"
    ELSE IF outcome \in {"http_5xx", "request_exception"}
    THEN IF attempt < current_retries - 1 THEN "continue"
         ELSE IF is_last THEN "return None"
         ELSE "continue"
    ELSE IF outcome = "dns"
    THEN IF is_last THEN "return None" ELSE "break"
    ELSE \* "connection", "timeout"
         IF attempt = 0 /\ ~is_last THEN "break"
         ELSE IF is_last THEN "return None"
         ELSE "continue"

FetchInputs ==
    {<<"https", ":", "/", "/", "univ-x", ".", "dz">>,
     <<"http", ":", "/", "/", "www", ".", "univ-x", ".", "dz", "/", "staff">>,
     <<"/", "/", "univ-x", ".", "dz", "?", "p">>,
     <<"/", "staff">>,
     <<"https", ":", "/", "/", "[", "univ-x", ".", "dz">>}

FetchInit ==
    /\ FilesAbsent /\ CrawlIdle
    /\ call \in {[op |-> "fetch_html", url |-> u, url_variants |-> <<>>, variant |-> 1,
                  attempt |-> 0, requests |-> <<>>, result |-> "pending", pc |-> 0] :
                u \in FetchInputs}

\* url = ensure_https(url); url_variants = try_www_variants(url)
FetchStart ==
    /\ call.op = "fetch_html" /\ call.pc = 0
    /\ call' = [call EXCEPT !.url = ensure_https(call.url),
                            !.url_variants = try_www_variants(ensure_https(call.url)),
                            !.pc = 1]
    /\ UNCHANGED <<files, crawl>>

\* a variant whose inner loop is range(current_retries + 1)
AfterPassOneMore(c, way) ==
    IF way = "return response" THEN [c EXCEPT !.result = "response", !.pc = 2]
    ELSE IF way = "return None" THEN [c EXCEPT !.result = None, !.pc = 2]
    ELSE IF way = "continue" /\ c.attempt + 1 < RETRY_ATTEMPTS + 1
    THEN [c EXCEPT !.attempt = @ + 1]
    ELSE IF c.variant < Len(c.url_variants)
    THEN [c EXCEPT !.variant = @ + 1, !.attempt = 0]
    ELSE [c EXCEPT !.result = None, !.pc = 2]

\* where the loops stand after a pass that ended in way: the next attempt on the
\* same variant, else the first attempt on the next variant, else the return None
\* after the loops
AfterPass(c, way) ==
    IF way = "return response" THEN [c EXCEPT !.result = "response", !.pc = 2]
    ELSE IF way = "return None" THEN [c EXCEPT !.result = None, !.pc = 2]
    ELSE IF way = "continue" /\ c.attempt + 1 < RETRY_ATTEMPTS
    THEN [c EXCEPT !.attempt = @ + 1]
    ELSE IF c.variant < Len(c.url_variants)
    THEN [c EXCEPT !.variant = @ + 1, !.attempt = 0]
    ELSE [c EXCEPT !.result = None, !.pc = 2]

\* one pass of "for attempt in range(current_retries)"
FetchAttempt ==
    /\ call.op = "fetch_html" /\ call.pc = 1
    /\ \E outcome \in FetchOutcomes :
         LET url_to_try == call.url_variants[call.variant]
             is_last == url_to_try = call.url_variants[Len(call.url_variants)]
         IN  call' = AfterPass([call EXCEPT !.requests =
                                   Append(@, [url |-> url_to_try, attempt |-> call.attempt,
                                              outcome |-> outcome])],
                               Handler(outcome, call.attempt, is_last, RETRY_ATTEMPTS))
    /\ UNCHANGED <<files, crawl>>

FetchNext == FetchStart \/ FetchAttempt

SpecFetch == FetchInit /\ [][FetchNext]_vars

-----------------------------------------------------------------------------
(* EmailScraper._process_url from the fetch on: the static fetch, the      *)
(* extraction and the Playwright fallback                                  *)
(*                                                                         *)
(* A page is [anchors, text_urls, items, len], len standing for len(html). *)
(* An Optional value is <<>> for None and <<v>> for the value v.           *)

\* len(html) < 10000
render_size_limit == 10000

\* the tuple _process_url returns
ProcessResult(url, emails, html, new_links) ==
    [url |-> url, emails |-> emails, html |-> html, new_links |-> new_links]

\* 'websites' in url_lower and not any(skip in url_lower for skip in [...])
RendersAfterFailure(url_lower) ==
    Contains(url_lower, <<"websites">>) /\ ~IsSkipped(url_lower)

\* should_try_playwright
ShouldTryPlaywright(url_lower, emails, html) ==
    (Contains(url_lower, <<"websites">>)
         \/ (Len(emails) = 0 /\ html.len < render_size_limit))
    /\ ~IsSkipped(url_lower)

ProcessUrls ==
    {<<"https", ":", "/", "/", "univ-x", ".", "dz", "/", "staff">>,
     <<"https", ":", "/", "/", "univ-x", ".", "dz", "/", "websites">>,
     <<"https", ":", "/", "/", "univ-x", ".", "dz", "/", "websites", "?", "page", "=", "2">>}
ProcessItems ==
    {[channel |-> "text", value |-> KSaid],
     [channel |-> "text", value |-> Contact],
     [channel |-> "mailto", value |-> <<"mailto:">> \o KSaidUpper]}
\* bound: number of identifier-bearing items of a page
MaxPageItems == 1
ProcessPages ==
    {[anchors |-> <<[href |-> <<"/", "contact">>, text |-> <<"x">>]>>, text_urls |-> <<>>,
      items |-> it, len |-> n] :
        it \in SeqsUpTo(ProcessItems, MaxPageItems),
        n \in {render_size_limit - 1, render_size_limit}}
\* what fetch_html_with_playwright gives: a page, None, or an exception
RenderOutcomes ==
    {[raised |-> FALSE, html |-> <<pg>>] : pg \in ProcessPages}
    \cup {[raised |-> FALSE, html |-> <<>>], [raised |-> TRUE, html |-> <<>>]}

ProcessInit ==
    /\ FilesAbsent /\ CrawlIdle
    /\ call \in {[op |-> "_process_url", url |-> u, response |-> r, static_emails |-> <<>>,
                  emails |-> <<>>, html |-> <<>>, rendered |-> <<>>, result |-> <<>>,
                  pc |-> 0] :
                u \in ProcessUrls, r \in {<<>>} \cup {<<pg>> : pg \in ProcessPages}}

\* response = self.fetch_html(url) and what follows up to the call of the renderer
ProcessFetched ==
    /\ call.op = "_process_url" /\ call.pc = 0
    /\ call' =
         IF call.response = <<>>
         THEN IF RendersAfterFailure(Lower(call.url))
              THEN [call EXCEPT !.pc = 1]
              ELSE [call EXCEPT !.result = <<ProcessResult(call.url, <<>>, <<>>, <<>>)>>,
                                !.pc = 2]
         ELSE Let(extract_emails_from_html(call.response[1].items, call.url, 0),
                  LAMBDA emails :
                  IF ShouldTryPlaywright(Lower(call.url), emails, call.response[1])
                  THEN [call EXCEPT !.static_emails = emails, !.emails = emails,
                                    !.html = call.response, !.pc = 1]
                  ELSE [call EXCEPT !.static_emails = emails, !.emails = emails,
                                    !.html = call.response,
                                    !.result = <<ProcessResult(call.url, <<emails>>,
                                                     call.response,
                                                     find_links_on_page(call.response[1],
                                                                        call.url))>>,
                                    !.pc = 2])
    /\ UNCHANGED <<files, crawl>>

\* _process_url after fetch_html_with_playwright(url) has given playwright
PlaywrightDone(c, playwright) ==
    IF playwright.html = <<>>
    THEN IF c.response = <<>>
         THEN [c EXCEPT !.result = <<ProcessResult(c.url, <<>>, <<>>, <<>>)>>, !.pc = 2]
         ELSE [c EXCEPT !.result = <<ProcessResult(c.url, <<c.emails>>, c.html,
                                                   find_links_on_page(c.html[1], c.url))>>,
                        !.pc = 2]
    ELSE Let(extract_emails_from_html(playwright.html[1].items, c.url, 0), LAMBDA emails :
             [c EXCEPT !.emails = emails, !.html = playwright.html,
                       !.result = <<ProcessResult(c.url, <<emails>>, playwright.html,
                                        find_links_on_page(playwright.html[1], c.url))>>,
                       !.pc = 2])

\* the call of the renderer and the rest of _process_url
ProcessRendered ==
    /\ call.op = "_process_url" /\ call.pc = 1
    /\ \E playwright \in RenderOutcomes :
         call' = PlaywrightDone([call EXCEPT !.rendered = Append(@, call.url)], playwright)
    /\ UNCHANGED <<files, crawl>>

ProcessNext == ProcessFetched \/ ProcessRendered

SpecProcess == ProcessInit /\ [][ProcessNext]_vars

-----------------------------------------------------------------------------
(* EmailScraper.run / scrape_domain / _process_url                         *)
(*                                                                         *)
(* The site is fixed; what varies is seeds.txt, the result of every fetch  *)
(* (a page, None, or an exception out of the worker), the order in which   *)
(* the workers of a batch run and complete, the order list(set(...)) gives *)
(* the discovered subdomains, whether the raw store can be written, and    *)
(* whether an earlier run has left a raw store behind.                     *)

\* bounds: the page budget of a seed, the size of the thread pool and the
\* consecutive-failure threshold (50, 10 and 100 in the program)
MAX_PAGES_PER_DOMAIN == 3
max_workers == 2
max_consecutive_failures == 2

\* min(consecutive_failures, 5)
failure_cap == 5

\* MAX_PAGES_PER_DOMAIN * 5
queue_factor == 5
max_queue_size == MAX_PAGES_PER_DOMAIN * queue_factor

SeedHome == <<"https", ":", "/", "/", "univ-x", ".", "dz">>
SeedStaff == <<"https", ":", "/", "/", "univ-x", ".", "dz", "/", "staff">>
SeedSub == <<"https", ":", "/", "/", "staff", ".", "univ-x", ".", "dz">>
\* a long listing page
SeedList == <<"https", ":", "/", "/", "univ-x", ".", "dz", "/", "list">>
\* a line urlparse cannot parse: "https://[univ-x.dz"
SeedBad == <<"https", ":", "/", "/", "[", "univ-x", ".", "dz">>
\* a line without a scheme: "univ-x.dz"
SeedBare == <<"univ-x", ".", "dz">>
SeedUrls == {SeedHome, SeedStaff, SeedSub, SeedList, SeedBad, SeedBare}
\* seeds.txt: one or two lines
SeedFiles == {<<a>> : a \in SeedUrls} \cup {<<a, b>> : a \in SeedUrls, b \in SeedUrls}

EmptyPage == [anchors |-> <<>>, text_urls |-> <<>>, items |-> <<>>]
\* the home page: a numbered listing page, the staff page, a ?page= listing page
HomePage ==
    [anchors |-> <<[href |-> <<"/", "list", "/", "2">>, text |-> <<"2">>],
                   [href |-> <<"/", "staff">>, text |-> <<"x">>],
                   [href |-> <<"/", "list", "?", "page", "=", "3">>, text |-> <<"3">>]>>,
     text_urls |-> <<>>,
     items |-> <<[channel |-> "text", value |-> KSaid]>>]
\* the staff page: a link back home and the contact page
StaffPage ==
    [anchors |-> <<[href |-> <<"/">>, text |-> <<"home">>],
                   [href |-> <<"/", "contact">>, text |-> <<"x">>]>>,
     text_urls |-> <<>>,
     items |-> <<[channel |-> "mailto", value |-> <<"mailto:">> \o KSaidUpper]>>]
\* the listing page: one link more than the queue may hold, /t/1, /t/2, ...
ListPage ==
    [anchors |-> [i \in 1..(max_queue_size + 1) |->
                     [href |-> <<"/", "t", "/", ToString(i)>>, text |-> <<"x">>]],
     text_urls |-> <<>>,
     items |-> <<[channel |-> "text", value |-> KSaid]>>]
\* a department's site: a link to the staff page of the main site
DeptPage ==
    [anchors |-> <<[href |-> <<"https", ":", "/", "/", "univ-x", ".", "dz", "/", "staff">>,
                    text |-> <<"x">>]>>,
     text_urls |-> <<>>,
     items |-> <<>>]
HomeUrl == <<"https", ":", "/", "/", "univ-x", ".", "dz", "/">>
FmathUrl == <<"https", ":", "/", "/", "fmath", ".", "univ-x", ".", "dz", "/">>
StaffUrl == <<"https", ":", "/", "/", "univ-x", ".", "dz", "/", "staff">>
ListUrl == <<"https", ":", "/", "/", "univ-x", ".", "dz", "/", "list">>
SitePages == {HomeUrl, StaffUrl, ListUrl}
\* the page a successful fetch of url gives
Html(url) ==
    IF url \in {HomeUrl, SeedBare} THEN HomePage
    ELSE IF url = StaffUrl THEN StaffPage
    ELSE IF url = ListUrl THEN ListPage
    ELSE IF url = FmathUrl THEN DeptPage
    ELSE EmptyPage

\* data/emails_raw.csv as an earlier run has left it
OldRaw == [exists |-> TRUE, rows |-> <<EmailRecord(KSaid, StaffUrl, "mailto_link", 0)>>]

\* is_already_subdomain
IsAlreadySubdomain(seed) ==
    Let(Split(strip_www(urlparse(seed).netloc), "."), LAMBDA domain_parts :
        LET base_parts == IF /\ Len(domain_parts) >= 2
                             /\ domain_parts[Len(domain_parts)] = <<"dz">>
                          THEN 2 ELSE Len(domain_parts)
        IN  Len(domain_parts) > base_parts)

\* discovered_subdomains, as a set: the common ones and those of the main page
\* when its fetch gave a response
DiscoveredSubdomains(seed, response) ==
    IF IsAlreadySubdomain(seed) THEN {}
    ELSE discover_subdomain_pages(seed)
         \cup (IF response = "ok"
               THEN Range(discover_subdomains_from_html(Html(seed).anchors, seed, <<>>))
               ELSE {})

RunInit ==
    /\ call = NoCall
    /\ OUTPUT_RAW \in {NoFile, OldRaw} /\ OUTPUT_CLEAN = NoFile
    /\ seeds \in SeedFiles
    /\ seed_index = 1
    /\ pc = "run"
    /\ normalized_seed = NoUrl
    /\ visited_urls = {}
    /\ queue = <<>> /\ seen_in_queue = {}
    /\ pages_scraped = 0 /\ consecutive_failures = 0
    /\ batch_urls = <<>> /\ futures = <<>>
    /\ batch_emails = <<>> /\ batch_new_links = <<>> /\ all_emails = <<>>
    /\ fetching = NoUrl

\* scrape_domain up to the while loop: the seed is normalised, the common subdomains
\* are listed, the main page is fetched (unless the seed is a subdomain) and the
\* queue is built
ScrapeDomainStart ==
    /\ pc = "run" /\ seed_index <= Len(seeds)
    /\ \E response \in {"ok", "none"}, seed \in {normalize_url(seeds[seed_index])} :
         /\ ~UrlparseRaises(seed)
         /\ normalized_seed' = seed
         /\ fetching' = IF IsAlreadySubdomain(seed) THEN NoUrl ELSE seed
         /\ \E discovered_subdomains \in Orders(DiscoveredSubdomains(seed, response)) :
              /\ queue' = <<seed>> \o discovered_subdomains
              /\ seen_in_queue' = {seed} \cup Range(discovered_subdomains)
    /\ all_emails' = <<>>
    /\ pages_scraped' = 0
    /\ consecutive_failures' = 0
    /\ batch_urls' = <<>> /\ futures' = <<>>
    /\ batch_emails' = <<>> /\ batch_new_links' = <<>>
    /\ pc' = "loop"
    /\ UNCHANGED <<call, files, seeds, seed_index, visited_urls>>

\* the mutant lets an error in scrape_domain end run
SeedErrorEndsRun == "crashed"

\* except Exception as e: logger.error(...); continue
SeedErrorContinues == "run"

\* scrape_domain raises before its loop: urlparse(normalized_seed) does not accept the
\* seed; run logs the error and goes on with the next seed, nothing is saved
ScrapeDomainRaises ==
    /\ pc = "run" /\ seed_index <= Len(seeds)
    /\ UrlparseRaises(normalize_url(seeds[seed_index]))
    /\ seed_index' = seed_index + 1
    /\ pc' = SeedErrorContinues
    /\ fetching' = NoUrl
    /\ UNCHANGED <<call, files, seeds, normalized_seed, visited_urls, queue,
                   seen_in_queue, pages_scraped, consecutive_failures, batch_urls,
                   futures, batch_emails, batch_new_links, all_emails>>

\* the mutant submits everything that is queued
BatchSizeWholeQueue(workers, queue_len, scraped) == queue_len

\* the mutant sizes a batch without looking at the page budget
BatchSizeNoBudget(workers, queue_len, scraped) == Min(workers, queue_len)

\* min(self.max_workers, len(queue), MAX_PAGES_PER_DOMAIN - pages_scraped)
BatchSize(workers, queue_len, scraped) ==
    Min(Min(workers, queue_len), MAX_PAGES_PER_DOMAIN - scraped)

\* the mutant has no queue ceiling
LoopIgnoresCeiling ==
    /\ queue # <<>> /\ pages_scraped < MAX_PAGES_PER_DOMAIN
    /\ BatchSize(max_workers, Len(queue), pages_scraped) # 0

\* the while condition, the queue ceiling and "if batch_size == 0: break"
LoopContinues ==
    /\ queue # <<>> /\ pages_scraped < MAX_PAGES_PER_DOMAIN
    /\ Len(queue) <= max_queue_size
    /\ BatchSize(max_workers, Len(queue), pages_scraped) # 0

\* the mutant reads the first n URLs of the queue and leaves them there
PeekLeft(q, n) == [batch |-> Upto(q, n), rest |-> q]

\* [queue.popleft() for _ in range(n)]: the URLs taken and the queue left
PopLeft(q, n) == [batch |-> Upto(q, n), rest |-> From(q, n)]

\* a batch is taken from the front of the queue and submitted to the pool
DispatchBatch ==
    /\ pc = "loop" /\ LoopContinues
    /\ LET batch_size == BatchSize(max_workers, Len(queue), pages_scraped)
       IN  /\ batch_urls' = PopLeft(queue, batch_size).batch
           /\ queue' = PopLeft(queue, batch_size).rest
           /\ futures' = [i \in 1..batch_size |-> "submitted"]
    /\ batch_emails' = <<>> /\ batch_new_links' = <<>>
    /\ fetching' = NoUrl
    /\ pc' = "batch"
    /\ UNCHANGED <<call, files, seeds, seed_index, normalized_seed, visited_urls,
                   seen_in_queue, pages_scraped, consecutive_failures, all_emails>>

\* the loop ends: queue empty, budget used up or queue over its ceiling
LoopExit ==
    /\ pc = "loop" /\ ~LoopContinues
    /\ pc' = "returned"
    /\ fetching' = NoUrl
    /\ UNCHANGED <<call, files, seeds, seed_index, normalized_seed, visited_urls, queue,
                   seen_in_queue, pages_scraped, consecutive_failures, batch_urls,
                   futures, batch_emails, batch_new_links, all_emails>>

\* consecutive_failures after the result of one future:
\* a page, (url, None, None, []), or an exception
FailuresAfter(failures, outcome, queue_len, new_links_len) ==
    IF outcome = "ok" THEN 0
    ELSE IF outcome = "none"
    THEN (IF queue_len > 0 \/ new_links_len > 0
          THEN Min(failures, failure_cap) ELSE failures + 1)
    ELSE failures + 1

\* the body of "for future in as_completed(future_to_url)" for the future of slot i
AsCompleted(i, outcome) ==
    LET url == batch_urls[i]
        emails == extract_emails_from_html(Html(url).items, url, seed_index)
        new_links == find_links_on_page(Html(url), url)
    IN  /\ consecutive_failures' =
               FailuresAfter(consecutive_failures, outcome, Len(queue), Len(batch_new_links))
        /\ pages_scraped' = IF outcome = "ok" THEN pages_scraped + 1 ELSE pages_scraped
        /\ batch_emails' = IF outcome = "ok" THEN batch_emails \o emails ELSE batch_emails
        /\ batch_new_links' = IF outcome = "ok" THEN batch_new_links \o new_links
                              ELSE batch_new_links
        /\ futures' = [futures EXCEPT ![i] = "done"]

\* _process_url up to the fetch: a login/admin URL or a visited URL gives
\* (url, None, None, []) at once; otherwise the URL is marked visited under the lock
\* and its fetch starts
ProcessUrlStart(i) ==
    /\ pc = "batch" /\ i \in DOMAIN futures /\ futures[i] = "submitted"
    /\ IF IsSkipped(Lower(batch_urls[i])) \/ batch_urls[i] \in visited_urls
       THEN /\ AsCompleted(i, "none")
            /\ fetching' = NoUrl
            /\ UNCHANGED visited_urls
       ELSE /\ visited_urls' = visited_urls \cup {batch_urls[i]}
            /\ futures' = [futures EXCEPT ![i] = "fetching"]
            /\ fetching' = batch_urls[i]
            /\ UNCHANGED <<pages_scraped, consecutive_failures, batch_emails,
                           batch_new_links>>
    /\ UNCHANGED <<call, files, seeds, seed_index, pc, normalized_seed, queue,
                   seen_in_queue, batch_urls, all_emails>>

\* the rest of _process_url and the handling of its result by scrape_domain
ProcessUrlFinish(i) ==
    /\ pc = "batch" /\ i \in DOMAIN futures /\ futures[i] = "fetching"
    /\ \E outcome \in {"ok", "none", "raise"} : AsCompleted(i, outcome)
    /\ fetching' = NoUrl
    /\ UNCHANGED <<call, files, seeds, seed_index, pc, normalized_seed, visited_urls,
                   queue, seen_in_queue, batch_urls, all_emails>>

\* the mutant never stops the crawl of a seed on failures
BreakerNeverTrips(failures) == FALSE

\* if consecutive_failures >= max_consecutive_failures: break
BreakerTrips(failures) == failures >= max_consecutive_failures

\* the mutant goes on as soon as one future has completed
FirstCompleted == \E i \in DOMAIN futures : futures[i] = "done"

\* "for future in as_completed(future_to_url)" has ended: every future has completed
AllCompleted == \A i \in DOMAIN futures : futures[i] = "done"

\* after the batch: the emails are kept, the new links are classified and appended
\* to the queue, the failure threshold is checked
EndBatch ==
    /\ pc = "batch" /\ AllCompleted
    /\ all_emails' = all_emails \o batch_emails
    /\ queue' = queue \o EnqueuedLinks(seen_in_queue, batch_new_links, normalized_seed,
                                       visited_urls)
    /\ seen_in_queue' = EnqueueLoop([EmptyLists EXCEPT !.seen = seen_in_queue],
                                    batch_new_links, normalized_seed, visited_urls).seen
    /\ pc' = IF BreakerTrips(consecutive_failures) THEN "returned" ELSE "loop"
    /\ fetching' = NoUrl
    /\ UNCHANGED <<call, files, seeds, seed_index, normalized_seed, visited_urls,
                   pages_scraped, consecutive_failures, batch_urls, futures,
                   batch_emails, batch_new_links>>

\* run: scrape_domain has returned; its emails are saved and the next seed is taken
SaveAndNextSeed ==
    /\ pc = "returned"
    /\ \E written \in BOOLEAN :
         OUTPUT_RAW' = save_raw_emails(OUTPUT_RAW, all_emails, written)
    /\ seed_index' = seed_index + 1
    /\ pc' = "run"
    /\ fetching' = NoUrl
    /\ UNCHANGED <<call, OUTPUT_CLEAN, seeds, normalized_seed, visited_urls, queue,
                   seen_in_queue, pages_scraped, consecutive_failures, batch_urls,
                   futures, batch_emails, batch_new_links, all_emails>>

\* run: after the last seed the canonical table is rebuilt
CleanAndDedupe ==
    /\ pc = "run" /\ seed_index > Len(seeds)
    /\ OUTPUT_CLEAN' = clean_and_dedupe_emails(OUTPUT_RAW, OUTPUT_CLEAN)
    /\ pc' = "done"
    /\ fetching' = NoUrl
    /\ UNCHANGED <<call, OUTPUT_RAW, seeds, seed_index, normalized_seed, visited_urls,
                   queue, seen_in_queue, pages_scraped, consecutive_failures,
                   batch_urls, futures, batch_emails, batch_new_links, all_emails>>

Init == RunInit

Next ==
    \/ ScrapeDomainStart
    \/ ScrapeDomainRaises
    \/ DispatchBatch
    \/ LoopExit
    \/ \E i \in 1..max_workers : ProcessUrlStart(i)
    \/ \E i \in 1..max_workers : ProcessUrlFinish(i)
    \/ EndBatch
    \/ SaveAndNextSeed
    \/ CleanAndDedupe

Spec == Init /\ [][Next]_vars

\* run is one thread that goes from statement to statement, and every call of a
\* worker of the pool returns: a step that can be taken is taken.  This is weak
\* fairness of Next, WF_vars(Next), with ENABLED <<Next>>_vars written as the state
\* predicate it is equal to: some action can be taken in every state but the last
\* one of run, where pc = "done".
FairSpec == Spec /\ ([]<><<Next>>_vars \/ []<>(pc = "done"))

-----------------------------------------------------------------------------
(* EmailScraper.get_robots_parser, called by the workers of one batch      *)

\* cache_key: the base domain of the URL's host, "www." stripped
robots_cache_key(url) ==
    LET host == strip_www(urlparse(url).netloc)
        parts == Split(host, ".")
    IN  IF Len(parts) >= 2 /\ parts[Len(parts)] = <<"dz">>
        THEN Join(SubSeq(parts, Len(parts) - 1, Len(parts)), ".")
        ELSE host

\* robots_url = f"https://{base_domain}/robots.txt"
robots_url(base_domain) ==
    <<"https", ":", "/", "/">> \o base_domain \o <<"/", "robots", ".", "txt">>

\* robots_session.get: status 200, another status, or an exception
RobotsOutcomes == {"200", "other", "raised"}

\* self.robots_cache = {}
EmptyCache == [k \in {} |-> <<>>]

\* the URLs the workers are given: the main site, two of its subdomains, another
\* site, and a line without a host
RobotsUrls ==
    {StaffUrl, SeedSub,
     <<"https", ":", "/", "/", "www", ".", "univ-x", ".", "dz", "/">>,
     <<"https", ":", "/", "/", "univ-y", ".", "dz", "/">>,
     SeedBare}

RobotsWorkers == 1..max_workers

\* a RobotFileParser is named after the worker that made it; <<>> is None
RobotsInit ==
    /\ FilesAbsent /\ CrawlIdle
    /\ call \in {[op |-> "get_robots_parser", url |-> u,
                  pc |-> [w \in RobotsWorkers |-> "check"],
                  rp |-> [w \in RobotsWorkers |-> <<>>],
                  result |-> [w \in RobotsWorkers |-> <<>>],
                  robots_cache |-> EmptyCache,
                  requests |-> <<>>, assigned |-> <<>>] : u \in [RobotsWorkers -> RobotsUrls]}

\* lines 123-142: no host gives None; under robots_lock, a cached entry is returned
RobotsCheck(w) ==
    /\ call.op = "get_robots_parser" /\ call.pc[w] = "check"
    /\ LET cache_key == robots_cache_key(call.url[w])
       IN  call' = IF urlparse(call.url[w]).netloc = <<>>
                   THEN [call EXCEPT !.pc[w] = "done", !.result[w] = <<>>]
                   ELSE IF cache_key \in DOMAIN call.robots_cache
                   THEN [call EXCEPT !.pc[w] = "done",
                                     !.result[w] = call.robots_cache[cache_key]]
                   ELSE [call EXCEPT !.pc[w] = "request"]
    /\ UNCHANGED <<files, crawl>>

\* lines 144-157 and 162-164: the request for robots.txt, outside the lock
RobotsRequest(w) ==
    /\ call.op = "get_robots_parser" /\ call.pc[w] = "request"
    /\ \E outcome \in RobotsOutcomes :
         call' = [call EXCEPT !.requests = Append(@, [url |-> robots_url(robots_cache_key(call.url[w])),
                                                      by |-> w]),
                              !.rp[w] = IF outcome = "200" THEN <<w>> ELSE <<>>,
                              !.pc[w] = "store"]
    /\ UNCHANGED <<files, crawl>>

\* lines 159-161 and 167-169: under robots_lock, robots_cache[cache_key] = rp or None
RobotsStore(w) ==
    /\ call.op = "get_robots_parser" /\ call.pc[w] = "store"
    /\ LET cache_key == robots_cache_key(call.url[w])
       IN  call' = [call EXCEPT
                       !.robots_cache = [k \in DOMAIN @ \cup {cache_key} |->
                                            IF k = cache_key THEN call.rp[w] ELSE @[k]],
                       !.assigned = Append(@, [key |-> cache_key, rp |-> call.rp[w]]),
                       !.result[w] = call.rp[w],
                       !.pc[w] = "done"]
    /\ UNCHANGED <<files, crawl>>

RobotsNext == \E w \in RobotsWorkers : RobotsCheck(w) \/ RobotsRequest(w) \/ RobotsStore(w)

SpecRobots == RobotsInit /\ [][RobotsNext]_vars

\* C1: once a URL is in visited_urls, no fetch of it is started again in the run,
\* neither by a worker in _process_url nor by scrape_domain itself.
C1_NoFetchOfVisited ==
    [][fetching' # NoUrl => fetching' \notin visited_urls]_vars

\* C7: when a pagination-style link and a generic-keyword link are discovered on the
\* same page, the pagination link is dequeued strictly before the generic link: the
\* generic link is never in a batch while the pagination link still waits in the
\* queue, nor ahead of it in the same batch.
C7_PaginationBeforeGeneric ==
    pc = "batch" =>
        \A p \in SitePages : \A a \in Range(Html(p).anchors) :
            LinkTier(a, p) = "pagination" =>
                \A b \in Range(Html(p).anchors) :
                    LinkTier(b, p) = "priority" =>
                        /\ ~(/\ Target(p, b) \in Range(batch_urls)
                             /\ Target(p, a) \in Range(queue))
                        /\ \A i, j \in DOMAIN batch_urls :
                               (batch_urls[i] = Target(p, b) /\ batch_urls[j] = Target(p, a))
                                   => j < i

\* C8: when consecutive_failures has reached max_consecutive_failures at the
\* end-of-batch check, scrape_domain dispatches no further batch and returns the
\* emails collected so far, and run then goes on to the next seed.
C8_CircuitBreaker ==
    [][/\ (/\ pc = "batch"
           /\ \A i \in DOMAIN futures : futures[i] = "done"
           /\ consecutive_failures >= max_consecutive_failures)
          => (/\ pc' = "returned"
              /\ all_emails' = all_emails \o batch_emails
              /\ seed_index' = seed_index)
       /\ pc = "returned" => (pc' = "run" /\ seed_index' = seed_index + 1)]_vars

\* the breaker has ended a crawl that still had queued URLs and page budget, with
\* emails collected, and a further seed is waiting
C8_Witness ==
    /\ pc = "returned"
    /\ consecutive_failures >= max_consecutive_failures
    /\ queue # <<>> /\ pages_scraped < MAX_PAGES_PER_DOMAIN
    /\ all_emails # <<>>
    /\ seed_index < Len(seeds)

\* C11: the raw store is append-only and written per seed.  Every step of a run
\* leaves the rows already in the raw store where they are; the store changes only
\* in the step of run that follows the return of scrape_domain for a seed, which
\* appends exactly the emails of that seed (or nothing, when the write fails) and
\* only then moves to the next seed; neither a later seed nor the rebuild of the
\* canonical table touches it.
C11_RawAppendOnly ==
    [][/\ StartsWith(OUTPUT_RAW'.rows, OUTPUT_RAW.rows)
       /\ OUTPUT_RAW.exists => OUTPUT_RAW'.exists
       /\ pc = "returned" =>
             /\ OUTPUT_RAW'.rows \in {OUTPUT_RAW.rows, OUTPUT_RAW.rows \o all_emails}
             /\ seed_index' = seed_index + 1 /\ pc' = "run"
       /\ pc # "returned" => OUTPUT_RAW' = OUTPUT_RAW
       /\ pc' = "loop" /\ pc = "run" => seed_index' = seed_index]_vars

\* the crawl of the second seed is under way, and the raw store holds the row an
\* earlier run left followed by the rows of the first seed
C11_Witness ==
    /\ pc = "batch" /\ seed_index = 2
    /\ Len(OUTPUT_RAW.rows) > Len(OldRaw.rows)
    /\ StartsWith(OUTPUT_RAW.rows, OldRaw.rows)

\* C12: no error of a seed and no failed write of the raw store ends the run.  The
\* seeds are taken one after the other, whether scrape_domain returned or raised and
\* whether the write succeeded or failed; every run comes to the rebuild of the
\* canonical table, which is done after the last seed and once.
C12_RunSurvivesErrors ==
    /\ [][/\ seed_index' \in {seed_index, seed_index + 1}
          /\ (pc = "run" /\ seed_index <= Len(seeds)) => pc' \in {"loop", "run"}
          /\ pc = "returned" => (pc' = "run" /\ seed_index' = seed_index + 1)
          /\ pc' = "done" => (pc = "run" /\ seed_index > Len(seeds)
                              /\ OUTPUT_CLEAN' = clean_and_dedupe_emails(OUTPUT_RAW,
                                                                         OUTPUT_CLEAN))
          /\ pc # "done"]_vars
    /\ <>(pc = "done" /\ seed_index = Len(seeds) + 1)

\* the run is over and the canonical table is rebuilt, although scrape_domain raised
\* for one seed and the emails of the other could not be written
C12_Witness ==
    /\ pc = "done" /\ OUTPUT_CLEAN.exists
    /\ \E i \in DOMAIN seeds : UrlparseRaises(normalize_url(seeds[i]))
    /\ all_emails # <<>> /\ OUTPUT_RAW = OldRaw

\* C13: every crawl of a seed terminates.  Once scrape_domain is in its scheduling
\* loop it comes to its return, whatever the fetches give, and when it leaves the
\* loop the page budget is used up, or the queue is empty, or the queue is over its
\* ceiling, or the failure threshold is reached.
C13_CrawlTerminates ==
    /\ (pc \in {"loop", "batch"}) ~> (pc = "returned")
    /\ [][(pc \in {"loop", "batch"} /\ pc' = "returned") =>
             \/ pages_scraped' >= MAX_PAGES_PER_DOMAIN
             \/ queue' = <<>>
             \/ Len(queue') > max_queue_size
             \/ consecutive_failures' >= max_consecutive_failures]_vars

\* a crawl that met successes and failures has ended on an empty queue, with page
\* budget left and the failure threshold not reached
C13_Witness ==
    /\ pc = "returned" /\ queue = <<>>
    /\ pages_scraped \in 1..(MAX_PAGES_PER_DOMAIN - 1)
    /\ consecutive_failures \in 1..(max_consecutive_failures - 1)
    /\ Cardinality(visited_urls) >= 3

\* C14: pages_scraped never exceeds MAX_PAGES_PER_DOMAIN, also when every URL of a
\* batch is fetched with success: the pages fetched so far and the URLs of the
\* batch in flight fit in the budget together, and no batch is dispatched once
\* pages_scraped equals MAX_PAGES_PER_DOMAIN.
C14_PageBudget ==
    [][/\ pages_scraped' <= MAX_PAGES_PER_DOMAIN
       /\ pages_scraped'
              + Cardinality({i \in DOMAIN futures' : futures'[i] # "done"})
            <= MAX_PAGES_PER_DOMAIN
       /\ (pc = "loop" /\ pc' = "batch") =>
              /\ pages_scraped < MAX_PAGES_PER_DOMAIN
              /\ Len(batch_urls') <= MAX_PAGES_PER_DOMAIN - pages_scraped
       /\ (pc = "loop" /\ pages_scraped = MAX_PAGES_PER_DOMAIN) => pc' = "returned"]_vars

\* the budget is used up by a batch whose URLs were all fetched with success, and
\* URLs are left in the queue
C14_Witness ==
    /\ pc = "returned" /\ pages_scraped = MAX_PAGES_PER_DOMAIN
    /\ Len(batch_urls) > 1 /\ queue # <<>>
    /\ consecutive_failures = 0

\* the place of a tier in the order of the tiers, the highest first
TierRank(tier) ==
    CASE tier = "contact" -> 1
      [] tier = "pagination" -> 2
      [] tier = "teacher" -> 3
      [] tier = "faculty" -> 4
      [] tier = "subdomain" -> 5
      [] tier = "priority" -> 6
      [] OTHER -> 7

\* the URLs scrape_domain puts in the queue before its loop, which have no tier
UntieredUrls == {normalized_seed} \cup DiscoveredSubdomains(normalized_seed, "ok")

\* C15: a dequeue takes a URL of the highest tier present.  When a batch is taken
\* from the queue, no URL left in the queue, and no URL taken after it in the same
\* batch, is of a strictly higher tier than a URL of the batch, whichever batch
\* enqueued it.
C15_DequeueHighestTier ==
    pc = "batch" =>
        \A i \in DOMAIN batch_urls :
            \A u \in (Range(queue) \cup {batch_urls[j] : j \in (i + 1)..Len(batch_urls)})
                     \ UntieredUrls :
                batch_urls[i] \notin UntieredUrls =>
                    TierRank(QueueTier(u, normalized_seed))
                        >= TierRank(QueueTier(batch_urls[i], normalized_seed))

\* the place of url in the sequence q, 0 when it is not there
PlaceIn(q, url) ==
    IF \E i \in DOMAIN q : q[i] = url
    THEN CHOOSE i \in DOMAIN q : q[i] = url /\ \A j \in 1..(i - 1) : q[j] # url
    ELSE 0

\* both anchors of the page have been put in the queue, a's target ahead of b's
QueuedBefore(a, b) ==
    (PlaceIn(call.queued, Target(LinksBase, a)) > 0
     /\ PlaceIn(call.queued, Target(LinksBase, b)) > 0)
        => PlaceIn(call.queued, Target(LinksBase, a))
               < PlaceIn(call.queued, Target(LinksBase, b))

\* the links of the page have gone through both classifications and are queued
LinksQueued == call.op = "find_links_on_page" /\ call.pc = 2

\* C16: every accepted link is in one tier, the first that matches in the order
\* contact, pagination, personal name, topical/department, subdomain, generic
\* keyword, unclassified, and the links of a batch are queued in that order: a
\* link is queued once, and a personal-name, topical or subdomain link is queued
\* before every generic-keyword link of the same batch.
C16_TierOrderInBatch ==
    LinksQueued =>
        /\ \A i, j \in DOMAIN call.queued : call.queued[i] = call.queued[j] => i = j
        /\ \A a, b \in Range(call.anchors) :
               (/\ LinkTier(a, LinksBase) \in {"teacher", "faculty", "subdomain"}
                /\ LinkTier(b, LinksBase) = "priority") => QueuedBefore(a, b)

\* C17: every pagination link queued from a batch is queued, and so dequeued,
\* before every personal-name link queued from the same batch.
C17_PaginationBeforeNames ==
    LinksQueued =>
        \A a, b \in Range(call.anchors) :
            (/\ LinkTier(a, LinksBase) = "pagination"
             /\ LinkTier(b, LinksBase) = "teacher") => QueuedBefore(a, b)

\* C18: two links of the same tier found in the same batch are queued, and so
\* dequeued, in the order in which they were found, in every tier, the pagination
\* tier included.
C18_DiscoveryOrderInTier ==
    LinksQueued =>
        \A i, j \in DOMAIN call.anchors :
            (/\ i < j
             /\ Target(LinksBase, call.anchors[i]) # Target(LinksBase, call.anchors[j])
             /\ \A k \in 1..(j - 1) : call.anchors[k] # call.anchors[j]
             /\ LinkTier(call.anchors[i], LinksBase) # "none"
             /\ LinkTier(call.anchors[i], LinksBase) = LinkTier(call.anchors[j], LinksBase))
                => QueuedBefore(call.anchors[i], call.anchors[j])

\* C19: every result of a successful fetch sets consecutive_failures to zero, and
\* the counter goes up only on a failure that comes while the queue is empty and
\* no new link has been collected in the batch; a failure with work still queued
\* never increases it.
C19_FailureCounter ==
    [][/\ (pc = "batch" /\ pages_scraped' = pages_scraped + 1)
              => consecutive_failures' = 0
       /\ consecutive_failures' > consecutive_failures
              => (queue = <<>> /\ batch_new_links = <<>>)]_vars

\* C20: when the queue holds more than MAX_PAGES_PER_DOMAIN * 5 URLs at the start
\* of a pass of the scheduling loop, scrape_domain dispatches nothing more for the
\* seed: it returns, with the emails collected so far, and run saves them and goes
\* on to the next seed.
C20_QueueCeiling ==
    [][/\ (pc = "loop" /\ Len(queue) > MAX_PAGES_PER_DOMAIN * queue_factor)
              => /\ pc' = "returned"
                 /\ fetching' = NoUrl
                 /\ UNCHANGED <<all_emails, queue, batch_urls, futures, visited_urls,
                                pages_scraped, seed_index>>
       /\ (pc = "returned" /\ Len(queue) > MAX_PAGES_PER_DOMAIN * queue_factor)
              => /\ pc' = "run" /\ seed_index' = seed_index + 1
                 /\ OUTPUT_RAW'.rows \in {OUTPUT_RAW.rows, OUTPUT_RAW.rows \o all_emails}]_vars

\* a crawl has ended on the queue ceiling, with page budget left and the failure
\* threshold not reached, and with emails collected
C20_Witness ==
    /\ pc = "returned"
    /\ Len(queue) > MAX_PAGES_PER_DOMAIN * queue_factor
    /\ pages_scraped \in 1..(MAX_PAGES_PER_DOMAIN - 1)
    /\ consecutive_failures < max_consecutive_failures
    /\ all_emails # <<>>

\* C21: the batch barrier.  While a worker of the current batch has not completed,
\* the queue and seen_in_queue stay as they are: nothing is enqueued and nothing is
\* dequeued, in whatever order the workers complete; the links the batch has found
\* wait in batch_new_links and are queued in one step, after the last completion.
C21_BatchBarrier ==
    [][/\ (\E i \in DOMAIN futures : futures[i] # "done")
              => (queue' = queue /\ seen_in_queue' = seen_in_queue /\ pc' = "batch")
       /\ (pc = "batch" /\ queue' # queue)
              => (/\ \A i \in DOMAIN futures : futures[i] = "done"
                  /\ queue' = queue \o EnqueuedLinks(seen_in_queue, batch_new_links,
                                                     normalized_seed, visited_urls))]_vars

\* the second worker of a batch has completed first and found links, the first is
\* still fetching, and URLs wait in the queue
C21_Witness ==
    /\ pc = "batch" /\ Len(futures) = 2
    /\ futures[1] = "fetching" /\ futures[2] = "done"
    /\ batch_new_links # <<>> /\ queue # <<>>

\* C22: the pool is bounded.  At every moment of a crawl at most max_workers URLs
\* are being processed, and every batch is the first
\* min(max_workers, len(queue), MAX_PAGES_PER_DOMAIN - pages_scraped) URLs of the
\* queue.
C22_BoundedPool ==
    [][/\ Len(futures') <= max_workers
       /\ Cardinality({i \in DOMAIN futures' : futures'[i] # "done"}) <= max_workers
       /\ (pc = "loop" /\ pc' = "batch") =>
              /\ Len(batch_urls') = Min(Min(max_workers, Len(queue)),
                                        MAX_PAGES_PER_DOMAIN - pages_scraped)
              /\ batch_urls' = SubSeq(queue, 1, Len(batch_urls'))
              /\ Len(futures') = Len(batch_urls')]_vars

\* the pool is full, every worker is fetching, and more URLs wait in the queue
C22_Witness ==
    /\ pc = "batch" /\ Len(futures) = max_workers
    /\ \A i \in DOMAIN futures : futures[i] = "fetching"
    /\ queue # <<>>

\* C23: within a seed's crawl no normalized URL is queued twice: the queue never
\* holds a URL twice, every URL in the queue or in the running batch is in
\* seen_in_queue, and a step of the crawl that lengthens the queue appends only
\* URLs that were not in seen_in_queue, each once, and keeps all of seen_in_queue,
\* the seed and the subdomain URLs the queue started with included
NoDuplicate(s) == \A i, j \in DOMAIN s : s[i] = s[j] => i = j
C23_EnqueuedOnce ==
    [][/\ NoDuplicate(queue')
       /\ pc' \in {"loop", "batch"} =>
              Range(queue') \cup Range(batch_urls') \subseteq seen_in_queue'
       /\ (pc = "run" /\ pc' = "loop") => normalized_seed' \in seen_in_queue'
       /\ pc = "batch" =>
              /\ seen_in_queue \subseteq seen_in_queue'
              /\ Len(queue') >= Len(queue)
              /\ \A i \in (Len(queue) + 1)..Len(queue') : queue'[i] \notin seen_in_queue]_vars
\* the two workers of a batch have both found the staff page, and it is queued once
C23_Witness ==
    /\ pc = "loop"
    /\ Cardinality({i \in DOMAIN batch_new_links : batch_new_links[i] = StaffUrl}) = 2
    /\ Cardinality({i \in DOMAIN queue : queue[i] = StaffUrl}) = 1

\* fetch_html has just called session.get and the call ended in one of outcomes
Requested(outcomes) ==
    /\ call.op = "fetch_html" /\ call.pc = 1
    /\ Len(call'.requests) = Len(call.requests) + 1
    /\ call'.requests[Len(call'.requests)].outcome \in outcomes

\* C24: an attempt of fetch_html that fails with a name-resolution error is the
\* last one for that URL: fetch_html returns failure without another request,
\* neither to the same URL nor to its www/non-www variant
C24_DnsFailureIsFinal ==
    [][Requested({"dns"}) => (call'.pc = 2 /\ call'.result = None)]_vars

\* C25: an attempt of fetch_html that receives HTTP 404 or 403 is the last one
\* for that URL: fetch_html returns failure without another request
C25_ClientErrorIsFinal ==
    [][Requested({"http_404", "http_403"}) => (call'.pc = 2 /\ call'.result = None)]_vars

\* the calls of session.get made for URL u
RequestsOf(c, u) == {i \in DOMAIN c.requests : c.requests[i].url = u}
C27_TimeoutLeavesVariant ==
    [][Requested({"timeout"}) => (call'.pc = 2 \/ call'.variant = call.variant + 1)]_vars

\* C28: _process_url calls the renderer for a statically fetched page only when
\* the static body gave no accepted identifier (and the body is below the size
\* threshold or the URL is a listing one): a page whose static body gave an
\* identifier is not fetched again through the renderer
C28_RenderOnlyWithoutIdentifiers ==
    (call.op = "_process_url" /\ call.response # <<>> /\ call.rendered # <<>>)
        => /\ call.static_emails = <<>>
           /\ (call.response[1].len < render_size_limit
                   \/ Contains(Lower(call.url), <<"websites">>))

\* url with its host put in lower case, the rest as it is
WithLowerHost(url) ==
    Let(SplitScheme(url).rest, LAMBDA rest :
        IF StartsWith(rest, <<"/", "/">>)
        THEN SubSeq(url, 1, Len(url) - Len(rest)) \o <<"/", "/">>
             \o Lower(SplitNetloc(rest).netloc) \o SplitNetloc(rest).rest
        ELSE url)
\* C29: normalize_url gives a URL with a host the host in lower case, so that two
\* URLs that differ only in the case of the host have the same normalized form,
\* the key of the visited set
C29_HostLowerCased ==
    (call.op = "normalize_url" /\ call.pc >= 1 /\ ~UrlparseRaises(call.url)
         /\ urlparse(call.url).netloc # <<>>)
        => /\ urlparse(call.once).netloc = Lower(urlparse(call.url).netloc)
           /\ call.once = normalize_url(WithLowerHost(call.url))

\* the last label of a netloc
TopLabel(netloc) == Let(Split(netloc, "."), LAMBDA parts : parts[Len(parts)])
\* C30: the domain-membership test strips a leading "www." from both hosts, and
\* for hosts whose top-level label is not dz it compares the stripped hosts in
\* full: https://www.univ-x.com/p and https://univ-x.com/q are in the same unit
C30_WwwStrippedBeforeCompare ==
    (call.op = "is_same_base_domain" /\ call.pc = 1
         /\ TopLabel(urlparse(call.url1).netloc) # <<"dz">>
         /\ TopLabel(urlparse(call.url2).netloc) # <<"dz">>)
        => call.result = (strip_www(urlparse(call.url1).netloc)
                              = strip_www(urlparse(call.url2).netloc))

\* C31: a string that contains no "@" is rejected by the classifier, the
\* scraper's and the standalone cleaner's: the outcome is institutional (reject),
\* not personal (accept)
C31_NoAtRejected ==
    (call.op = "is_institutional_email" /\ call.pc = 2
         /\ Find(call.email, "@", 0) < 0)
        => (call.scraper = TRUE /\ call.cleaner = TRUE)

\* C32: the classifier rejects every identifier whose local part, as given to it,
\* has at most 4 characters, no "." and no "-", and is fully upper-case or has at
\* most 3 characters; so a local part of 4 upper-case letters is rejected
C32_AbbreviationRejected ==
    (call.op = "is_institutional_email" /\ call.pc = 1) =>
        LET l == LocalPart(call.email)
        IN  (/\ Len(l) <= 4
             /\ Find(l, ".", 0) < 0 /\ Find(l, "-", 0) < 0
             /\ (IsUpper(l) \/ Len(l) <= 3))
                => call.result = TRUE

\* the channels in the order extract_emails_from_html scans them, and their tags
ChannelOrder == <<"mailto", "data", "meta", "text", "script">>
ChannelTag == <<"mailto_link", "data_attribute", "meta_tag", "regex_html", "script_tag">>
\* the identifier an item of the page carries
ItemIdentifier(item) ==
    IF item.channel = "mailto"
    THEN Lower(Strip(Split(Remove(item.value, "mailto:"), "?")[1]))
    ELSE Lower(Strip(item.value))
\* the channels of the page that carry identifier e
ChannelsWith(page, e) ==
    {k \in 1..Len(ChannelOrder) :
        \E i \in 1..Len(page) : page[i].channel = ChannelOrder[k]
                                /\ ItemIdentifier(page[i]) = e}
\* C33: the list extract_emails_from_html returns holds each identifier at most
\* once, and the record kept for an identifier is the one of its first occurrence
\* in the order mailto link, data attribute, meta tag, body text, script: it
\* carries the tag of the first of these channels that holds the identifier
C33_FirstOccurrenceKept ==
    (call.op = "extract_emails_from_html" /\ call.pc = 1) =>
        /\ \A i, j \in 1..Len(call.result) :
               call.result[i].email = call.result[j].email => i = j
        /\ \A i \in 1..Len(call.result) :
               LET with == ChannelsWith(call.html, call.result[i].email)
               IN  /\ with # {}
                   /\ \A k \in with :
                          (\A m \in with : k <= m)
                              => call.result[i].parse_method = ChannelTag[k]
\* the body text names k.said@univ-x.dz before the mailto link does, in the
\* document; the one record kept is the one of the mailto link
C33_Witness ==
    /\ call.op = "extract_emails_from_html" /\ call.pc = 1
    /\ call.html = <<[channel |-> "text", value |-> KSaid],
                     [channel |-> "mailto", value |-> <<"mailto:">> \o KSaidUpper]>>
    /\ Len(call.result) = 1
    /\ call.result[1].parse_method = "mailto_link"

\* C34: no link whose URL contains a login/admin fragment is returned by
\* find_links_on_page or queued by scrape_domain, whether it comes from an anchor
\* or from a bare URL in the text of the page
C34_DenylistedNeverQueued ==
    (call.op = "find_links_on_page" /\ call.pc >= 1) =>
        /\ \A i \in 1..Len(call.found) : ~IsSkipped(Lower(call.found[i]))
        /\ call.pc = 2 => \A i \in 1..Len(call.queued) : ~IsSkipped(Lower(call.queued[i]))

\* C35: in every state of a seed's crawl, every URL of the queue and every URL
\* handed to a worker is in the domain unit of the seed, that is,
\* is_same_base_domain(seed, url) holds
C35_QueueInScope ==
    \A u \in Range(queue) \cup Range(batch_urls) : is_same_base_domain(normalized_seed, u)

\* C36: robots.txt of a base domain is requested at most once, also when several
\* workers ask for it at the same time, and a cache entry, once made, is never
\* assigned again
C36_RobotsRequestedOnce ==
    call.op = "get_robots_parser" =>
        /\ \A i, j \in 1..Len(call.requests) :
               call.requests[i].url = call.requests[j].url => i = j
        /\ \A i, j \in 1..Len(call.assigned) :
               call.assigned[i].key = call.assigned[j].key => i = j

C38_SeenIsQueued ==
    (call.op = "find_links_on_page" /\ call.pc = 2) =>
        call.seen_in_queue \subseteq Range(call.queued) \cup {LinksBase}

\* C39: the rendering fallback loses no identifier: every identifier accepted
\* from the static body is among the emails _process_url returns, also when the
\* renderer gave a body; when the renderer gave none or raised, the static
\* emails and the static body are returned unchanged
C39_RenderKeepsIdentifiers ==
    (call.op = "_process_url" /\ call.pc = 2 /\ call.response # <<>>) =>
        LET result == call.result[1]
        IN  /\ \A i \in 1..Len(call.static_emails) :
                   \E j \in 1..Len(result.emails[1]) :
                       result.emails[1][j].email = call.static_emails[i].email
            /\ (call.rendered # <<>> /\ call.html = call.response) =>
                   /\ result.emails[1] = call.static_emails
                   /\ result.html = call.response

\* C40: the standalone cleaner is no stricter than the scraper's classifier:
\* whatever clean_emails.is_institutional_email rejects, the scraper's
\* is_institutional_email rejects too; and clean_csv, run on the canonical table
\* a rebuild has just written, leaves every row of it in place, unchanged
C40_CleanerNoStricter ==
    /\ (call.op = "is_institutional_email" /\ call.pc = 2) =>
           (call.cleaner = TRUE => call.scraper = TRUE)
    /\ (call.op = "clean_csv" /\ call.pc = 2 /\ OUTPUT_RAW.exists) =>
           OUTPUT_CLEAN = call.rebuilt

\* the cleaner has run on a table that a rebuild has just written over an older
\* one, and that holds a row
C40_Witness ==
    /\ call.op = "clean_csv" /\ call.pc = 2 /\ OUTPUT_RAW.exists
    /\ call.rebuilt.rows # <<>>
    /\ Len(OUTPUT_RAW.rows) > Len(call.rebuilt.rows)

=============================================================================
